---- MODULE Spec2Model ----
(***************************************************************************)
(* A model of the phone advisor (src/app.py): the rule-based filter        *)
(* extractor, the dataset filter and the chat dialogue driven by the       *)
(* Streamlit session state.                                                *)
(*                                                                         *)
(* A Python str is a sequence of one-character strings, so that `in`,      *)
(* str.lower, the regular expressions, int() and the f-strings are         *)
(* computed character by character as the code computes them.  A dict is   *)
(* a function from its keys; a DataFrame is the sequence of its rows.      *)
(***************************************************************************)
EXTENDS Integers, Sequences, FiniteSets, TLC

VARIABLES
    df,                     \* the catalog returned by load_data()
    query,                  \* st.session_state.query
    filtered_df,            \* st.session_state.filtered_df
    show_results,           \* st.session_state.show_results
    messages,               \* st.session_state.messages
    current_filters,        \* st.session_state.current_filters
    mode,                   \* st.session_state.mode
    show_results_display,   \* st.session_state.show_results_display
    awaiting_confirmation,  \* st.session_state.awaiting_confirmation
    tie_order,              \* how this build's unstable sort orders rows of equal price
    pc,                     \* "ready": page rendered, waiting for the user; "rerun": st.rerun() pending
    last                    \* what the last script run did (observation only)

vars == <<df, query, filtered_df, show_results, messages, current_filters, mode,
          show_results_display, awaiting_confirmation, tie_order, pc, last>>

-----------------------------------------------------------------------------
(* Python text primitives *)

\* The one character U+20B9 (Indian rupee sign).
RUPEE == "INR"

DigitChars == <<"0","1","2","3","4","5","6","7","8","9">>
UpperChars == <<"A","B","C","D","E","F","G","H","I","J","K","L","M",
                "N","O","P","Q","R","S","T","U","V","W","X","Y","Z">>
LowerChars == <<"a","b","c","d","e","f","g","h","i","j","k","l","m",
                "n","o","p","q","r","s","t","u","v","w","x","y","z">>

\* \d
IsDigit(c) == \E d \in 1..Len(DigitChars) : DigitChars[d] = c
\* \s
IsSpace(c) == c = " "

DigitVal(c) == (CHOOSE d \in 1..Len(DigitChars) : DigitChars[d] = c) - 1

LowerChar(c) ==
    IF \E k \in 1..Len(UpperChars) : UpperChars[k] = c
    THEN LowerChars[CHOOSE k \in 1..Len(UpperChars) : UpperChars[k] = c]
    ELSE c

UpperChar(c) ==
    IF \E k \in 1..Len(LowerChars) : LowerChars[k] = c
    THEN UpperChars[CHOOSE k \in 1..Len(LowerChars) : LowerChars[k] = c]
    ELSE c

RECURSIVE MapLower(_)
MapLower(s) == IF s = <<>> THEN <<>> ELSE <<LowerChar(Head(s))>> \o MapLower(Tail(s))

\* str.lower()
lower(s) == MapLower(s)

\* str.capitalize(): first character upper-cased, the rest lower-cased
capitalize(s) == IF s = <<>> THEN <<>> ELSE <<UpperChar(Head(s))>> \o MapLower(Tail(s))

\* s[i:].startswith(lit), i counted from 1
StartsAt(s, i, lit) ==
    /\ i >= 1
    /\ i + Len(lit) - 1 <= Len(s)
    /\ \A k \in 1..Len(lit) : s[i + k - 1] = lit[k]

\* lit in s
Contains(s, lit) == \E i \in 1..(Len(s) - Len(lit) + 1) : StartsAt(s, i, lit)

\* any(k in s for k in lits)
ContainsAny(s, lits) == \E k \in 1..Len(lits) : Contains(s, lits[k])

RECURSIVE ParseDigits(_, _)
ParseDigits(s, acc) ==
    IF s = <<>> THEN acc ELSE ParseDigits(Tail(s), 10 * acc + DigitVal(Head(s)))

\* int(s) for a string of decimal digits
int(s) == ParseDigits(s, 0)

RECURSIVE FormatNat(_)
FormatNat(n) ==
    IF n < 10 THEN <<DigitChars[n + 1]>>
    ELSE FormatNat(n \div 10) \o <<DigitChars[(n % 10) + 1]>>

\* f"{n}" for a non-negative int
str(n) == FormatNat(n)

RECURSIVE JoinFrom(_, _, _)
JoinFrom(parts, sep, k) ==
    IF k > Len(parts) THEN <<>>
    ELSE IF k = Len(parts) THEN parts[k]
    ELSE parts[k] \o sep \o JoinFrom(parts, sep, k + 1)

\* sep.join(parts)
join(sep, parts) == JoinFrom(parts, sep, 1)

-----------------------------------------------------------------------------
(* Regular expression pieces.  Every quantified class below (\s*, \d+) is   *)
(* followed by a character outside the class, so the greedy match is the    *)
(* only one and no backtracking is lost.  A match is the tuple of its       *)
(* groups converted by int(); no match (None) is the empty tuple.           *)

\* end of the longest run of \s starting at i
SkipSpaces(s, i) ==
    CHOOSE j \in i..(Len(s) + 1) :
        /\ \A k \in i..(j - 1) : IsSpace(s[k])
        /\ (j = Len(s) + 1 \/ ~IsSpace(s[j]))

\* end of the longest run of \d starting at i
DigitsEnd(s, i) ==
    CHOOSE j \in i..(Len(s) + 1) :
        /\ \A k \in i..(j - 1) : IsDigit(s[k])
        /\ (j = Len(s) + 1 \/ ~IsDigit(s[j]))

\* position after an optional rupee sign at i
OptRupee(s, i) == IF i <= Len(s) /\ s[i] = RUPEE THEN i + 1 ELSE i

\* the digits s[i..j-1] as an int
Number(s, i, j) == int(SubSeq(s, i, j - 1))

\* the least element of a non-empty set of positions
Leftmost(hits) == CHOOSE i \in hits : \A h \in hits : i <= h

\* re.search: the match at the leftmost position where M matches
Search(s, M(_, _)) ==
    IF \E i \in 1..Len(s) : M(s, i) # <<>>
    THEN M(s, Leftmost({i \in 1..Len(s) : M(s, i) # <<>>}))
    ELSE <<>>

\* (\d+) at i: <<group 1, position after the digits>>
AmountAt(s, i) ==
    IF DigitsEnd(s, i) > i THEN <<Number(s, i, DigitsEnd(s, i)), DigitsEnd(s, i)>> ELSE <<>>

\* the word of `words` that starts at i, or the empty word
WordAt(s, i, words) ==
    IF \E w \in 1..Len(words) : StartsAt(s, i, words[w])
    THEN words[CHOOSE w \in 1..Len(words) : StartsAt(s, i, words[w])]
    ELSE <<>>

\* \s*Rs?\s*(\d+) at i
RupeeAmountAt(s, i) == AmountAt(s, SkipSpaces(s, OptRupee(s, SkipSpaces(s, i))))

\* the first group of a match, as a match
Group1(m) == IF m # <<>> THEN <<m[1]>> ELSE <<>>

\* (?:w1|w2|...)\s*Rs?\s*(\d+) at i
WordsAmountAt(s, i, words) ==
    IF WordAt(s, i, words) # <<>>
    THEN Group1(RupeeAmountAt(s, i + Len(WordAt(s, i, words))))
    ELSE <<>>

\* m, a match of (\d+) ending at m[2], followed by \s*unit:
\* <<group 1, position after the unit>>
ThenUnit(s, m, unit) ==
    IF m # <<>> /\ StartsAt(s, SkipSpaces(s, m[2]), unit)
    THEN <<m[1], SkipSpaces(s, m[2]) + Len(unit)>>
    ELSE <<>>

\* (\d+)\s*unit at i: <<group 1, position after the unit>>
AmountUnitAt(s, i, unit) == ThenUnit(s, AmountAt(s, i), unit)

\* \s*(?:w1|w2|...) at i
SpacesThenAny(s, i, words) ==
    \E w \in 1..Len(words) : StartsAt(s, SkipSpaces(s, i), words[w])

\* the words of the patterns and the brand aliases (src/app.py:57-150)
Word ==
    [under |->
         <<"u","n","d","e","r">>,
     less_than |->
         <<"l","e","s","s"," ","t","h","a","n">>,
     below |->
         <<"b","e","l","o","w">>,
     over |->
         <<"o","v","e","r">>,
     above |->
         <<"a","b","o","v","e">>,
     more_than |->
         <<"m","o","r","e"," ","t","h","a","n">>,
     around |->
         <<"a","r","o","u","n","d">>,
     about |->
         <<"a","b","o","u","t">>,
     to |->
         <<"t","o">>,
     dash |->
         <<"-">>,
     gb |->
         <<"g","b">>,
     ram |->
         <<"r","a","m">>,
     storage |->
         <<"s","t","o","r","a","g","e">>,
     rom |->
         <<"r","o","m">>,
     min |->
         <<"m","i","n">>,
     at_least |->
         <<"a","t"," ","l","e","a","s","t">>,
     mah |->
         <<"m","a","h">>,
     samsung |->
         <<"s","a","m","s","u","n","g">>,
     galaxy |->
         <<"g","a","l","a","x","y">>,
     apple |->
         <<"a","p","p","l","e">>,
     iphone |->
         <<"i","p","h","o","n","e">>,
     xiaomi |->
         <<"x","i","a","o","m","i">>,
     redmi |->
         <<"r","e","d","m","i">>,
     oneplus |->
         <<"o","n","e","p","l","u","s">>,
     nord |->
         <<"n","o","r","d">>]

\* the two groups of a range whose second amount matched
RangeOf(a, b) == IF b # <<>> THEN <<a[1], b[1]>> ELSE <<>>

\* r'(?:under|less than|below)\s*Rs?\s*(\d+)'
PriceMaxAt(s, i) == WordsAmountAt(s, i, <<Word.under, Word.less_than, Word.below>>)

\* a, a match of (\d+) ending at a[2], followed by \s*(?:to|-)\s*Rs?(\d+):
\* <<group 1, group 2>>
ThenTo(s, a, t) ==
    IF WordAt(s, t, <<Word.to, Word.dash>>) # <<>>
    THEN RangeOf(a, AmountAt(s, OptRupee(s, SkipSpaces(s, t + Len(WordAt(s, t, <<Word.to, Word.dash>>))))))
    ELSE <<>>

\* r'Rs(\d+)\s*(?:to|-)\s*Rs?(\d+)'
PriceRangeAt(s, i) ==
    IF i <= Len(s) /\ s[i] = RUPEE /\ AmountAt(s, i + 1) # <<>>
    THEN ThenTo(s, AmountAt(s, i + 1), SkipSpaces(s, AmountAt(s, i + 1)[2]))
    ELSE <<>>

\* r'(?:over|above|more than)\s*Rs?\s*(\d+)'
PriceMinAt(s, i) == WordsAmountAt(s, i, <<Word.over, Word.above, Word.more_than>>)

\* r'(?:around|about)\s*Rs?\s*(\d+)'
AroundPriceAt(s, i) == WordsAmountAt(s, i, <<Word.around, Word.about>>)

\* m followed by \s*(?:w1|w2|...)
Followed(s, m, words) ==
    IF m # <<>> /\ SpacesThenAny(s, m[2], words) THEN <<m[1]>> ELSE <<>>

\* m followed by (?!\s*(?:w1|w2|...))
NotFollowed(s, m, words) ==
    IF m # <<>> /\ ~SpacesThenAny(s, m[2], words) THEN <<m[1]>> ELSE <<>>

\* r'(\d+)\s*gb\s*ram'
RamExplicitAt(s, i) == Followed(s, AmountUnitAt(s, i, Word.gb), <<Word.ram>>)

\* r'(\d+)\s*gb(?!\s*(?:storage|rom))'
RamAmbiguousAt(s, i) == NotFollowed(s, AmountUnitAt(s, i, Word.gb), <<Word.storage, Word.rom>>)

\* r'(?:min|at least)\s*(\d+)\s*gb(?:\s*ram)?' and
\* r'(?:min|at least)\s*(\d+)\s*gb(?:\s*storage|\s*rom)?': the optional tail
\* never decides the match, and group 1 is the same for both
MinGbAt(s, i) ==
    IF WordAt(s, i, <<Word.min, Word.at_least>>) # <<>>
    THEN Group1(AmountUnitAt(s, SkipSpaces(s, i + Len(WordAt(s, i, <<Word.min, Word.at_least>>))), Word.gb))
    ELSE <<>>

\* r'(\d+)\s*gb(?:\s*storage|\s*rom)'
StorageExplicitAt(s, i) == Followed(s, AmountUnitAt(s, i, Word.gb), <<Word.storage, Word.rom>>)

\* r'(\d+)\s*gb'
StorageAmbiguousAt(s, i) == Group1(AmountUnitAt(s, i, Word.gb))

\* r'(\d+)\s*mah(?:\s*battery)?'
BatteryAt(s, i) == Group1(AmountUnitAt(s, i, Word.mah))

-----------------------------------------------------------------------------
(* dict *)

\* {}
EmptyDict == [k \in {} |-> 0]

\* d[k] = v
Put(d, k, v) == [x \in (DOMAIN d) \cup {k} |-> IF x = k THEN v ELSE d[x]]

\* k in d
Has(d, k) == k \in DOMAIN d

\* bool(d)
NonEmpty(d) == DOMAIN d # {}

\* update keeping the existing value of a key that both hold
update_ExistingWins(existing, new) ==
    [k \in (DOMAIN existing) \cup (DOMAIN new) |->
        IF k \in DOMAIN existing THEN existing[k] ELSE new[k]]

\* existing.update(new)
update(existing, new) ==
    [k \in (DOMAIN existing) \cup (DOMAIN new) |->
        IF k \in DOMAIN new THEN new[k] ELSE existing[k]]

-----------------------------------------------------------------------------
(* extract_filters *)

\* src/app.py:121
GamingWords ==
    <<<<"g","a","m","i","n","g">>,
      <<"g","a","m","e">>,
      <<"p","e","r","f","o","r","m","a","n","c","e">>,
      <<"p","o","w","e","r","f","u","l">>>>

\* src/app.py:123
CameraWords ==
    <<<<"c","a","m","e","r","a">>,
      <<"p","h","o","t","o">>,
      <<"p","h","o","t","o","g","r","a","p","h","y">>,
      <<"p","h","o","t","o","s">>,
      <<"m","e","g","a","p","i","x","e","l">>,
      <<"m","p">>>>

\* src/app.py:125
BudgetWords ==
    <<<<"b","u","d","g","e","t">>,
      <<"c","h","e","a","p">>,
      <<"a","f","f","o","r","d","a","b","l","e">>,
      <<"l","o","w"," ","c","o","s","t">>>>

\* src/app.py:127
BatteryWords ==
    <<<<"b","a","t","t","e","r","y">>,
      <<"l","o","n","g"," ","l","a","s","t","i","n","g">>,
      <<"e","n","d","u","r","a","n","c","e">>>>

\* src/app.py:129
DisplayWords ==
    <<<<"d","i","s","p","l","a","y">>,
      <<"s","c","r","e","e","n">>,
      <<"a","m","o","l","e","d">>,
      <<"o","l","e","d">>,
      <<"f","l","u","i","d">>,
      <<"h","z">>>>

\* src/app.py:131
FastChargingWords ==
    <<<<"f","a","s","t"," ","c","h","a","r","g","i","n","g">>,
      <<"q","u","i","c","k"," ","c","h","a","r","g","e">>>>

\* src/app.py:133
CompactWords ==
    <<<<"c","o","m","p","a","c","t">>,
      <<"s","m","a","l","l">>>>

\* src/app.py:135
PremiumWords ==
    <<<<"p","r","e","m","i","u","m">>,
      <<"f","l","a","g","s","h","i","p">>>>

\* filters[key] = int(match.group(1)) if the pattern matched
PutGroup1(filters, key, m) == IF m # <<>> THEN Put(filters, key, m[1]) ELSE filters

\* the under/less than/below rule, were it to take the last match of the
\* utterance
PriceMaxRule_LastMatch(query_lower, filters) ==
    IF Search(query_lower, PriceMaxAt) # <<>>
    THEN Put(filters, "price_max",
             PriceMaxAt(query_lower,
                        CHOOSE i \in 1..Len(query_lower) :
                            /\ PriceMaxAt(query_lower, i) # <<>>
                            /\ \A h \in (i + 1)..Len(query_lower) :
                                   PriceMaxAt(query_lower, h) = <<>>)[1])
    ELSE filters

\* src/app.py:56-59
PriceMaxRule(query_lower, filters) ==
    PutGroup1(filters, "price_max", Search(query_lower, PriceMaxAt))

\* the range rule, were it to leave a price_max it finds in place
RangeOrMin_CeilingKept(filters, price_range_match, price_min_match) ==
    IF price_range_match # <<>>
    THEN Put(Put(filters, "price_max",
                 IF Has(filters, "price_max") THEN filters["price_max"]
                 ELSE price_range_match[2]),
             "price_min", price_range_match[1])
    ELSE PutGroup1(filters, "price_min", price_min_match)

\* src/app.py:62-68: the range if it matched, else over/above/more than
RangeOrMin(filters, price_range_match, price_min_match) ==
    IF price_range_match # <<>>
    THEN Put(Put(filters, "price_min", price_range_match[1]), "price_max", price_range_match[2])
    ELSE PutGroup1(filters, "price_min", price_min_match)

\* src/app.py:61-68
PriceRangeRule(query_lower, filters) ==
    RangeOrMin(filters, Search(query_lower, PriceRangeAt), Search(query_lower, PriceMinAt))

\* src/app.py:71-74
AroundWindow(filters, around_price_match) ==
    IF around_price_match # <<>>
    THEN Put(Put(filters, "price_min",
                 IF around_price_match[1] > 2000 THEN around_price_match[1] - 2000 ELSE 0),
             "price_max", around_price_match[1] + 2000)
    ELSE filters

\* src/app.py:70-75
AroundPriceRule(query_lower, filters) ==
    AroundWindow(filters, Search(query_lower, AroundPriceAt))

\* src/app.py:56-75: the price rules, in order on one dict
PriceFilters(query_lower, filters) ==
    AroundPriceRule(query_lower, PriceRangeRule(query_lower, PriceMaxRule(query_lower, filters)))

\* src/app.py:80-95: the first of the three patterns that matched decides
RamChoice(query_lower, filters, ram_explicit_match, ram_ambiguous_match, ram_min_match) ==
    IF ram_explicit_match # <<>>
    THEN Put(filters, "ram_min", ram_explicit_match[1])
    ELSE IF ram_ambiguous_match # <<>>
    THEN IF ~Contains(query_lower, Word.storage) /\ ~Contains(query_lower, Word.rom)
         THEN Put(filters, "ram_min", ram_ambiguous_match[1])
         ELSE filters
    ELSE PutGroup1(filters, "ram_min", ram_min_match)

\* src/app.py:79-95
RamFilters(query_lower, filters) ==
    RamChoice(query_lower, filters, Search(query_lower, RamExplicitAt),
              Search(query_lower, RamAmbiguousAt), Search(query_lower, MinGbAt))

\* src/app.py:99-112
StorageChoice(filters, storage_explicit_match, storage_ambiguous_match, storage_min_match) ==
    IF storage_explicit_match # <<>>
    THEN Put(filters, "storage_min", storage_explicit_match[1])
    ELSE IF ~Has(filters, "ram_min")
    THEN PutGroup1(filters, "storage_min", storage_ambiguous_match)
    ELSE PutGroup1(filters, "storage_min", storage_min_match)

\* src/app.py:98-112
StorageFilters(query_lower, filters) ==
    StorageChoice(filters, Search(query_lower, StorageExplicitAt),
                  Search(query_lower, StorageAmbiguousAt), Search(query_lower, MinGbAt))

\* src/app.py:115-118
BatteryFilters(query_lower, filters) ==
    PutGroup1(filters, "battery_capacity_mah", Search(query_lower, BatteryAt))

\* one `if any(k in query_lower for k in words): filters[key] = True`
KeywordFlag(query_lower, filters, words, key) ==
    IF ContainsAny(query_lower, words) THEN Put(filters, key, TRUE) ELSE filters

\* src/app.py:121-136
KeywordFilters(query_lower, filters) ==
    KeywordFlag(query_lower,
     KeywordFlag(query_lower,
      KeywordFlag(query_lower,
       KeywordFlag(query_lower,
        KeywordFlag(query_lower,
         KeywordFlag(query_lower,
          KeywordFlag(query_lower,
           KeywordFlag(query_lower, filters, GamingWords, "keyword_gaming"),
           CameraWords, "keyword_camera"),
          BudgetWords, "keyword_budget"),
         BatteryWords, "keyword_battery"),
        DisplayWords, "keyword_display"),
       FastChargingWords, "keyword_fast_charging"),
      CompactWords, "keyword_compact"),
     PremiumWords, "keyword_premium")

RECURSIVE UniqueFrom(_, _, _)
UniqueFrom(rows, k, seen) ==
    IF k > Len(rows) THEN seen
    ELSE IF \E j \in 1..Len(seen) : seen[j] = rows[k].brand
         THEN UniqueFrom(rows, k + 1, seen)
         ELSE UniqueFrom(rows, k + 1, Append(seen, rows[k].brand))

\* [brand.lower() for brand in ...]
LowerAll(names) == [k \in 1..Len(names) |-> lower(names[k])]

\* [brand.lower() for brand in df['brand'].dropna().unique().tolist()]:
\* the distinct brands in order of first appearance
unique_brands_lower(catalog) == LowerAll(UniqueFrom(catalog, 1, <<>>))

\* src/app.py:142-146
BrandMentioned(brand, query_lower) ==
    \/ Contains(query_lower, brand)
    \/ (brand = Word.samsung /\ Contains(query_lower, Word.galaxy))
    \/ (brand = Word.apple /\ Contains(query_lower, Word.iphone))
    \/ (brand = Word.xiaomi /\ Contains(query_lower, Word.redmi))
    \/ (brand = Word.oneplus /\ Contains(query_lower, Word.nord))

\* src/app.py:141-149: the first brand of the list the query mentions
FirstBrand(query_lower, filters, brands) ==
    IF \E k \in 1..Len(brands) : BrandMentioned(brands[k], query_lower)
    THEN Put(filters, "brand",
             capitalize(brands[Leftmost({k \in 1..Len(brands) :
                                            BrandMentioned(brands[k], query_lower)})]))
    ELSE filters

\* src/app.py:140-149
BrandFilters(query_lower, filters, catalog) ==
    FirstBrand(query_lower, filters, unique_brands_lower(catalog))

\* src/app.py:49-152 on the lower-cased query
ExtractLower(query_lower, catalog) ==
    BrandFilters(query_lower,
     KeywordFilters(query_lower,
      BatteryFilters(query_lower,
       StorageFilters(query_lower,
        RamFilters(query_lower,
         PriceFilters(query_lower, EmptyDict))))),
     catalog)

\* extract_filters(query), with the global df it reads
extract_filters_df(user_query, catalog) == ExtractLower(lower(user_query), catalog)

\* src/app.py:49-152
extract_filters(user_query) == extract_filters_df(user_query, df)

-----------------------------------------------------------------------------
(* filter_data.  A row is a record of the catalog's columns; screen sizes  *)
(* are in tenths of an inch (6.0 is 60) and a missing Processor is the     *)
(* empty string, which is what fillna('') makes of it.                     *)

\* the row goes after the rows that sort before it; rows of equal price keep
\* their order ("stable") or swap it ("reversed")
InsertByPrice(sorted, row, ties) ==
    LET n == Cardinality({k \in 1..Len(sorted) :
                             IF ties = "stable"
                             THEN sorted[k].launched_price_rs <= row.launched_price_rs
                             ELSE sorted[k].launched_price_rs < row.launched_price_rs})
    IN  SubSeq(sorted, 1, n) \o <<row>> \o SubSeq(sorted, n + 1, Len(sorted))

RECURSIVE SortFrom(_, _, _, _)
SortFrom(rows, k, acc, ties) ==
    IF k > Len(rows) THEN acc
    ELSE SortFrom(rows, k + 1, InsertByPrice(acc, rows[k], ties), ties)

\* DataFrame.sort_values(by='launched_price_rs', ascending=True): the default
\* kind is quicksort, which is not stable, so the order of equal prices is
\* the build's
sort_values(rows, ties) == SortFrom(rows, 1, <<>>, ties)

\* 'key' in filters and filters['key']
Flag(filters, key) == Has(filters, key) /\ filters[key]

\* the fragments of the texts the code matches and builds
Text ==
    [
     \* "snapdragon"
     snapdragon |->
         <<"s","n","a","p","d","r","a","g","o","n">>,
     \* "dimensity"
     dimensity |->
         <<"d","i","m","e","n","s","i","t","y">>,
     \* "gaming"
     gaming |->
         <<"g","a","m","i","n","g">>,
     \* "thank you"
     thank_you |->
         <<"t","h","a","n","k"," ","y","o","u">>,
     \* "thanks"
     thanks |->
         <<"t","h","a","n","k","s">>,
     \* "help"
     help |->
         <<"h","e","l","p">>,
     \* "what can you do"
     what_can_you_do |->
         <<"w","h","a","t"," ","c","a","n"," ","y","o","u"," ","d","o">>,
     \* src/app.py:675: "Understood! Searching for "
     searching_for |->
         <<"U","n","d","e","r","s","t","o","o","d","!"," ","S","e","a","r","c","h","i","n","g"," ","f","o","r"," ">>,
     \* " now..."
     now |->
         <<" ","n","o","w",".",".",".">>,
     \* src/app.py:730: "So far, you're looking for "
     so_far |->
         <<"S","o"," ","f","a","r",","," ","y","o","u","'","r","e"," ","l","o","o","k","i","n","g"," ","f","o","r"," ">>,
     \* ". Does that sound right? Shall I search now or do you have more details?"
     sound_right |->
         <<"."," ","D","o","e","s"," ","t","h","a","t"," ","s","o","u","n","d"," ","r","i","g","h","t","?"," ","S","h","a","l","l"," ","I"," ","s","e","a","r","c","h"," ","n","o","w"," ","o","r"," ","d","o"," ","y","o","u"," ","h","a","v","e"," ","m","o","r","e"," ","d","e","t","a","i","l","s","?">>,
     \* "a "
     a |->
         <<"a"," ">>,
     \* " phone"
     phone |->
         <<" ","p","h","o","n","e">>,
     \* "around Rs"
     around |->
         <<"a","r","o","u","n","d"," ",RUPEE>>,
     \* "between Rs"
     between |->
         <<"b","e","t","w","e","e","n"," ",RUPEE>>,
     \* " and Rs"
     and |->
         <<" ","a","n","d"," ",RUPEE>>,
     \* "under Rs"
     under |->
         <<"u","n","d","e","r"," ",RUPEE>>,
     \* "over Rs"
     over |->
         <<"o","v","e","r"," ",RUPEE>>,
     \* "with at least "
     with_at_least |->
         <<"w","i","t","h"," ","a","t"," ","l","e","a","s","t"," ">>,
     \* "GB RAM"
     gb_ram |->
         <<"G","B"," ","R","A","M">>,
     \* "GB storage"
     gb_storage |->
         <<"G","B"," ","s","t","o","r","a","g","e">>,
     \* " mAh battery"
     mah_battery |->
         <<" ","m","A","h"," ","b","a","t","t","e","r","y">>,
     \* "for gaming"
     for_gaming |->
         <<"f","o","r"," ","g","a","m","i","n","g">>,
     \* "with a good camera"
     good_camera |->
         <<"w","i","t","h"," ","a"," ","g","o","o","d"," ","c","a","m","e","r","a">>,
     \* "with long battery life"
     long_battery |->
         <<"w","i","t","h"," ","l","o","n","g"," ","b","a","t","t","e","r","y"," ","l","i","f","e">>,
     \* "with a great display"
     great_display |->
         <<"w","i","t","h"," ","a"," ","g","r","e","a","t"," ","d","i","s","p","l","a","y">>,
     \* "a compact size"
     compact_size |->
         <<"a"," ","c","o","m","p","a","c","t"," ","s","i","z","e">>,
     \* "a premium/flagship model"
     premium_model |->
         <<"a"," ","p","r","e","m","i","u","m","/","f","l","a","g","s","h","i","p"," ","m","o","d","e","l">>,
     \* ", "
     comma |->
         <<","," ">>,
     \* "https://placehold.co/200x200/000000/FFFFFF?text=No+Image"
     no_image |->
         <<"h","t","t","p","s",":","/","/","p","l","a","c","e","h","o","l","d",".","c","o","/","2","0","0","x","2","0","0","/","0","0","0","0","0","0","/","F","F","F","F","F","F","?","t","e","x","t","=","N","o","+","I","m","a","g","e">>]

\* Processor.fillna('').str.contains('Snapdragon|Dimensity|Gaming', case=False)
GamingProcessor(row) ==
    ContainsAny(lower(row.Processor), <<Text.snapdragon, Text.dimensity, Text.gaming>>)

\* ByPriceMax with a ceiling of 50000 when no price_max is given
ByPriceMax_DefaultCeiling(rows, filters) ==
    IF Has(filters, "price_max")
    THEN SelectSeq(rows, LAMBDA r : r.launched_price_rs <= filters["price_max"])
    ELSE SelectSeq(rows, LAMBDA r : r.launched_price_rs <= 50000)

\* src/app.py:159-162
ByPriceMax(rows, filters) ==
    IF Has(filters, "price_max")
    THEN SelectSeq(rows, LAMBDA r : r.launched_price_rs <= filters["price_max"])
    ELSE rows

\* ByPriceMin letting go of a price_min that lies above price_max
ByPriceMin_UnlessCrossed(rows, filters) ==
    IF /\ Has(filters, "price_min")
       /\ ~(Has(filters, "price_max") /\ filters["price_min"] > filters["price_max"])
    THEN SelectSeq(rows, LAMBDA r : r.launched_price_rs >= filters["price_min"])
    ELSE rows

\* src/app.py:163-166
ByPriceMin(rows, filters) ==
    IF Has(filters, "price_min")
    THEN SelectSeq(rows, LAMBDA r : r.launched_price_rs >= filters["price_min"])
    ELSE rows

\* src/app.py:167-170
ByRam(rows, filters) ==
    IF Has(filters, "ram_min")
    THEN SelectSeq(rows, LAMBDA r : r.ram_gb >= filters["ram_min"])
    ELSE rows

\* src/app.py:171-174
ByStorage(rows, filters) ==
    IF Has(filters, "storage_min")
    THEN SelectSeq(rows, LAMBDA r : r.storage_gb >= filters["storage_min"])
    ELSE rows

\* ByBrand comparing the brands as written
ByBrand_AsWritten(rows, filters) ==
    IF Has(filters, "brand")
    THEN SelectSeq(rows, LAMBDA r : r.brand = filters["brand"])
    ELSE rows

\* ByBrand passing every row once a ceiling is present
ByBrand_UnlessCeiling(rows, filters) ==
    IF Has(filters, "brand") /\ ~Has(filters, "price_max")
    THEN SelectSeq(rows, LAMBDA r : lower(r.brand) = lower(filters["brand"]))
    ELSE rows

\* src/app.py:175-178
ByBrand(rows, filters) ==
    IF Has(filters, "brand")
    THEN SelectSeq(rows, LAMBDA r : lower(r.brand) = lower(filters["brand"]))
    ELSE rows

\* src/app.py:181-184
ByBattery(rows, filters) ==
    IF Has(filters, "battery_capacity_mah")
    THEN SelectSeq(rows, LAMBDA r : r.battery_capacity_mah >= filters["battery_capacity_mah"])
    ELSE rows

\* src/app.py:187-190
ByGaming(rows, filters) ==
    IF Flag(filters, "keyword_gaming")
    THEN SelectSeq(rows, LAMBDA r : r.ram_gb >= 6 /\ GamingProcessor(r))
    ELSE rows

\* src/app.py:191-194
ByCamera(rows, filters) ==
    IF Flag(filters, "keyword_camera")
    THEN SelectSeq(rows, LAMBDA r : r.back_camera_mp >= 48)
    ELSE rows

\* BudgetCap applied whatever price bound is present
BudgetCap_Always(sorted, filters) ==
    SelectSeq(sorted, LAMBDA r : r.launched_price_rs <= 15000)

\* src/app.py:198-199: the default budget cap
BudgetCap(sorted, filters) ==
    IF ~Has(filters, "price_max") /\ ~Has(filters, "price_min")
    THEN SelectSeq(sorted, LAMBDA r : r.launched_price_rs <= 15000)
    ELSE sorted

\* src/app.py:195-200
ByBudget(rows, filters) ==
    IF Flag(filters, "keyword_budget")
    THEN BudgetCap(sort_values(rows, tie_order), filters)
    ELSE rows

\* ByBatteryKeyword applying its threshold beside a capacity
ByBatteryKeyword_Always(rows, filters) ==
    IF Flag(filters, "keyword_battery")
    THEN SelectSeq(rows, LAMBDA r : r.battery_capacity_mah >= 4500)
    ELSE rows

\* src/app.py:201-206
ByBatteryKeyword(rows, filters) ==
    IF Flag(filters, "keyword_battery") /\ ~Has(filters, "battery_capacity_mah")
    THEN SelectSeq(rows, LAMBDA r : r.battery_capacity_mah >= 4500)
    ELSE rows

\* src/app.py:207-210
ByDisplay(rows, filters) ==
    IF Flag(filters, "keyword_display")
    THEN SelectSeq(rows, LAMBDA r : r.screen_size_inches >= 60)
    ELSE rows

\* src/app.py:211-214
ByCompact(rows, filters) ==
    IF Flag(filters, "keyword_compact")
    THEN SelectSeq(rows, LAMBDA r : r.screen_size_inches <= 60)
    ELSE rows

\* src/app.py:215-219
ByPremium(rows, filters) ==
    IF Flag(filters, "keyword_premium")
    THEN SelectSeq(rows, LAMBDA r : r.launched_price_rs >= 50000)
    ELSE rows

\* CatalogAfterFilter for a filter_data that sorts the frame it is given
CatalogAfterFilter_SortedInPlace(catalog, filters) ==
    IF Flag(filters, "keyword_budget") THEN sort_values(catalog, tie_order) ELSE catalog

\* src/app.py:155-221: what a call of filter_data leaves in the frame it is
\* given.  It works on df.copy(), and boolean indexing and sort_values
\* return new frames, so the caller's frame is as it was.
CatalogAfterFilter(catalog, filters) == catalog

\* src/app.py:154-222: the filters in the order the code applies them
filter_data(catalog, filters) ==
    ByPremium(
     ByCompact(
      ByDisplay(
       ByBatteryKeyword(
        ByBudget(
         ByCamera(
          ByGaming(
           ByBattery(
            ByBrand(
             ByStorage(
              ByRam(
               ByPriceMin(
                ByPriceMax(catalog, filters),
                filters), filters), filters), filters), filters), filters), filters),
         filters), filters), filters), filters), filters)

\* pd.DataFrame()
EmptyFrame == <<>>

\* fetch_image_url without its try
fetch_image_url_Unguarded(name, search) ==
    IF search.raises
    THEN [returned |-> <<>>, raised |-> TRUE]
    ELSE IF search.results # <<>>
    THEN [returned |-> search.results[1].image, raised |-> FALSE]
    ELSE [returned |-> Text.no_image, raised |-> FALSE]

\* src/app.py:225-235.  search is what DDGS().images(...) does in this call:
\* it raises an Exception, or it returns a list of results, each with the
\* URL of an image.  The value is what the call returns and whether an
\* exception leaves it.
fetch_image_url(name, search) ==
    IF search.raises
    THEN [returned |-> Text.no_image, raised |-> FALSE]
    ELSE IF search.results # <<>>
    THEN [returned |-> search.results[1].image, raised |-> FALSE]
    ELSE [returned |-> Text.no_image, raised |-> FALSE]

-----------------------------------------------------------------------------
(* The texts of the dialogue *)

\* src/app.py:616
AffirmativeWords ==
    <<<<"y","e","s">>,
      <<"y","e","p">>,
      <<"c","o","n","f","i","r","m">>,
      <<"o","k">>,
      <<"g","o"," ","a","h","e","a","d">>,
      <<"s","e","a","r","c","h">>,
      <<"f","i","n","d">>,
      <<"s","h","o","w"," ","m","e">>>>

\* src/app.py:622
NegativeWords ==
    <<<<"n","o">>,
      <<"n","o","p","e">>,
      <<"c","a","n","c","e","l">>,
      <<"c","h","a","n","g","e">>,
      <<"n","o","t">>>>

\* src/app.py:642
SearchPhrases ==
    <<<<"s","e","a","r","c","h">>,
      <<"f","i","n","d"," ","p","h","o","n","e","s">>,
      <<"s","h","o","w"," ","m","e">>,
      <<"g","o">>,
      <<"r","e","s","u","l","t","s">>,
      <<"o","k"," ","s","e","a","r","c","h">>,
      <<"w","h","a","t"," ","d","o"," ","y","o","u"," ","h","a","v","e">>>>

\* src/app.py:684
GreetingWords ==
    <<<<"h","i">>,
      <<"h","e","l","l","o">>,
      <<"h","e","y">>,
      <<"h","i","i">>,
      <<"h","o","l","l","a">>>>

\* src/app.py:620: "Does that sound right? Shall I search now"
ConfirmationMarker ==
    <<"D","o","e","s"," ","t","h","a","t"," ","s","o","u","n","d"," ","r","i","g","h","t","?"," ","S","h","a","l","l"," ","I"," ","s","e","a","r","c","h"," ","n","o","w">>

\* src/app.py:915: "Understood! Searching for"
SearchingMarker ==
    <<"U","n","d","e","r","s","t","o","o","d","!"," ","S","e","a","r","c","h","i","n","g"," ","f","o","r">>

\* src/app.py:899: "No phones found matching your combined criteria."
NoPhonesMarker ==
    <<"N","o"," ","p","h","o","n","e","s"," ","f","o","u","n","d"," ","m","a","t","c","h","i","n","g"," ","y","o","u","r"," ","c","o","m","b","i","n","e","d"," ","c","r","i","t","e","r","i","a",".">>

\* src/app.py:627: "No problem. What changes would you like to make, or what else are you looking for?"
DenialResponse ==
    <<"N","o"," ","p","r","o","b","l","e","m","."," ","W","h","a","t"," ","c","h","a","n","g","e","s"," ","w","o","u","l","d"," ","y","o","u"," ","l","i","k","e"," ","t","o"," ","m","a","k","e",","," ","o","r"," ","w","h","a","t"," ","e","l","s","e"," ","a","r","e"," ","y","o","u"," ","l","o","o","k","i","n","g"," ","f","o","r","?">>

\* src/app.py:647: "I need some criteria (like price, RAM, or use case) before I can search for phones. What are you looking for?"
CriteriaNeededResponse ==
    <<"I"," ","n","e","e","d"," ","s","o","m","e"," ","c","r","i","t","e","r","i","a"," ","(","l","i","k","e"," ","p","r","i","c","e",","," ","R","A","M",","," ","o","r"," ","u","s","e"," ","c","a","s","e",")"," ","b","e","f","o","r","e"," ","I"," ","c","a","n"," ","s","e","a","r","c","h"," ","f","o","r"," ","p","h","o","n","e","s","."," ","W","h","a","t"," ","a","r","e"," ","y","o","u"," ","l","o","o","k","i","n","g"," ","f","o","r","?">>

\* src/app.py:677: "Understood! Searching for phones based on what we've discussed."
SearchDiscussedResponse ==
    <<"U","n","d","e","r","s","t","o","o","d","!"," ","S","e","a","r","c","h","i","n","g"," ","f","o","r"," ","p","h","o","n","e","s"," ","b","a","s","e","d"," ","o","n"," ","w","h","a","t"," ","w","e","'","v","e"," ","d","i","s","c","u","s","s","e","d",".">>

\* src/app.py:685: "Hello! I'm your Phone Advisor. How can I assist you today? Tell me what kind of phone you are looking for. For example: 'I need a phone under Rs20000 with a good camera'."
GreetingResponse ==
    <<"H","e","l","l","o","!"," ","I","'","m"," ","y","o","u","r"," ","P","h","o","n","e"," ","A","d","v","i","s","o","r","."," ","H","o","w"," ","c","a","n"," ","I"," ","a","s","s","i","s","t"," ","y","o","u"," ","t","o","d","a","y","?"," ","T","e","l","l"," ","m","e"," ","w","h","a","t"," ","k","i","n","d"," ","o","f"," ","p","h","o","n","e"," ","y","o","u"," ","a","r","e"," ","l","o","o","k","i","n","g"," ","f","o","r","."," ","F","o","r"," ","e","x","a","m","p","l","e",":"," ","'","I"," ","n","e","e","d"," ","a"," ","p","h","o","n","e"," ","u","n","d","e","r"," ",RUPEE,"2","0","0","0","0"," ","w","i","t","h"," ","a"," ","g","o","o","d"," ","c","a","m","e","r","a","'",".">>

\* src/app.py:687: "You're most welcome! Happy to assist. Is there anything else you'd like to refine or search for?"
ThanksResponse ==
    <<"Y","o","u","'","r","e"," ","m","o","s","t"," ","w","e","l","c","o","m","e","!"," ","H","a","p","p","y"," ","t","o"," ","a","s","s","i","s","t","."," ","I","s"," ","t","h","e","r","e"," ","a","n","y","t","h","i","n","g"," ","e","l","s","e"," ","y","o","u","'","d"," ","l","i","k","e"," ","t","o"," ","r","e","f","i","n","e"," ","o","r"," ","s","e","a","r","c","h"," ","f","o","r","?">>

\* src/app.py:689: "I can help you find phones based on your preferences. You can ask for a phone 'under Rs25000', with '8GB RAM', for 'gaming', with 'good camera', or specific brands like 'Samsung'. Just tell me what you're looking for!"
HelpResponse ==
    <<"I"," ","c","a","n"," ","h","e","l","p"," ","y","o","u"," ","f","i","n","d"," ","p","h","o","n","e","s"," ","b","a","s","e","d"," ","o","n"," ","y","o","u","r"," ","p","r","e","f","e","r","e","n","c","e","s","."," ","Y","o","u"," ","c","a","n"," ","a","s","k"," ","f","o","r"," ","a"," ","p","h","o","n","e"," ","'","u","n","d","e","r"," ",RUPEE,"2","5","0","0","0","'",","," ","w","i","t","h"," ","'","8","G","B"," ","R","A","M","'",","," ","f","o","r"," ","'","g","a","m","i","n","g","'",","," ","w","i","t","h"," ","'","g","o","o","d"," ","c","a","m","e","r","a","'",","," ","o","r"," ","s","p","e","c","i","f","i","c"," ","b","r","a","n","d","s"," ","l","i","k","e"," ","'","S","a","m","s","u","n","g","'","."," ","J","u","s","t"," ","t","e","l","l"," ","m","e"," ","w","h","a","t"," ","y","o","u","'","r","e"," ","l","o","o","k","i","n","g"," ","f","o","r","!">>

\* src/app.py:691: "To help you better, please tell me what kind of phone you are looking for. For example, 'a phone under Rs15000' or 'a gaming phone with good battery'."
StartingCriteriaResponse ==
    <<"T","o"," ","h","e","l","p"," ","y","o","u"," ","b","e","t","t","e","r",","," ","p","l","e","a","s","e"," ","t","e","l","l"," ","m","e"," ","w","h","a","t"," ","k","i","n","d"," ","o","f"," ","p","h","o","n","e"," ","y","o","u"," ","a","r","e"," ","l","o","o","k","i","n","g"," ","f","o","r","."," ","F","o","r"," ","e","x","a","m","p","l","e",","," ","'","a"," ","p","h","o","n","e"," ","u","n","d","e","r"," ",RUPEE,"1","5","0","0","0","'"," ","o","r"," ","'","a"," ","g","a","m","i","n","g"," ","p","h","o","n","e"," ","w","i","t","h"," ","g","o","o","d"," ","b","a","t","t","e","r","y","'",".">>

\* src/app.py:719: "What's your budget for the phone?"
BudgetQuestion ==
    <<"W","h","a","t","'","s"," ","y","o","u","r"," ","b","u","d","g","e","t"," ","f","o","r"," ","t","h","e"," ","p","h","o","n","e","?">>

\* src/app.py:721: "And how much RAM are you looking for? (e.g., '8GB RAM')"
RamQuestion ==
    <<"A","n","d"," ","h","o","w"," ","m","u","c","h"," ","R","A","M"," ","a","r","e"," ","y","o","u"," ","l","o","o","k","i","n","g"," ","f","o","r","?"," ","(","e",".","g",".",","," ","'","8","G","B"," ","R","A","M","'",")">>

\* src/app.py:723: "What about storage? How much internal storage do you need? (e.g., '128GB storage')"
StorageQuestion ==
    <<"W","h","a","t"," ","a","b","o","u","t"," ","s","t","o","r","a","g","e","?"," ","H","o","w"," ","m","u","c","h"," ","i","n","t","e","r","n","a","l"," ","s","t","o","r","a","g","e"," ","d","o"," ","y","o","u"," ","n","e","e","d","?"," ","(","e",".","g",".",","," ","'","1","2","8","G","B"," ","s","t","o","r","a","g","e","'",")">>

\* src/app.py:725: "How about battery life? Do you need a minimum battery capacity (e.g., '5000 mAh')?"
BatteryQuestion ==
    <<"H","o","w"," ","a","b","o","u","t"," ","b","a","t","t","e","r","y"," ","l","i","f","e","?"," ","D","o"," ","y","o","u"," ","n","e","e","d"," ","a"," ","m","i","n","i","m","u","m"," ","b","a","t","t","e","r","y"," ","c","a","p","a","c","i","t","y"," ","(","e",".","g",".",","," ","'","5","0","0","0"," ","m","A","h","'",")","?">>

\* src/app.py:727: "Do you have a preferred brand, or any specific features like camera or display you prioritize?"
BrandFeatureQuestion ==
    <<"D","o"," ","y","o","u"," ","h","a","v","e"," ","a"," ","p","r","e","f","e","r","r","e","d"," ","b","r","a","n","d",","," ","o","r"," ","a","n","y"," ","s","p","e","c","i","f","i","c"," ","f","e","a","t","u","r","e","s"," ","l","i","k","e"," ","c","a","m","e","r","a"," ","o","r"," ","d","i","s","p","l","a","y"," ","y","o","u"," ","p","r","i","o","r","i","t","i","z","e","?">>

\* src/app.py:732: "Okay, I've noted your preferences. Shall I search for phones based on these criteria now, or do you have more details to add?"
NotedPreferencesResponse ==
    <<"O","k","a","y",","," ","I","'","v","e"," ","n","o","t","e","d"," ","y","o","u","r"," ","p","r","e","f","e","r","e","n","c","e","s","."," ","S","h","a","l","l"," ","I"," ","s","e","a","r","c","h"," ","f","o","r"," ","p","h","o","n","e","s"," ","b","a","s","e","d"," ","o","n"," ","t","h","e","s","e"," ","c","r","i","t","e","r","i","a"," ","n","o","w",","," ","o","r"," ","d","o"," ","y","o","u"," ","h","a","v","e"," ","m","o","r","e"," ","d","e","t","a","i","l","s"," ","t","o"," ","a","d","d","?">>

\* src/app.py:737: "I'm still learning! Could you please rephrase or tell me more about what you're looking for?"
FallbackResponse ==
    <<"I","'","m"," ","s","t","i","l","l"," ","l","e","a","r","n","i","n","g","!"," ","C","o","u","l","d"," ","y","o","u"," ","p","l","e","a","s","e"," ","r","e","p","h","r","a","s","e"," ","o","r"," ","t","e","l","l"," ","m","e"," ","m","o","r","e"," ","a","b","o","u","t"," ","w","h","a","t"," ","y","o","u","'","r","e"," ","l","o","o","k","i","n","g"," ","f","o","r","?">>

\* src/app.py:756: "Hello! I'm your Phone Advisor. How can I assist you today? Tell me what you're looking for!"
ChatWelcomeMessage ==
    <<"H","e","l","l","o","!"," ","I","'","m"," ","y","o","u","r"," ","P","h","o","n","e"," ","A","d","v","i","s","o","r","."," ","H","o","w"," ","c","a","n"," ","I"," ","a","s","s","i","s","t"," ","y","o","u"," ","t","o","d","a","y","?"," ","T","e","l","l"," ","m","e"," ","w","h","a","t"," ","y","o","u","'","r","e"," ","l","o","o","k","i","n","g"," ","f","o","r","!">>

\* src/app.py:920: "Searching for phones now..."
SearchingNowMessage ==
    <<"S","e","a","r","c","h","i","n","g"," ","f","o","r"," ","p","h","o","n","e","s"," ","n","o","w",".",".",".">>

\* src/app.py:924: "No phones found matching your combined criteria. Would you like to adjust your preferences?"
NoPhonesMessage ==
    <<"N","o"," ","p","h","o","n","e","s"," ","f","o","u","n","d"," ","m","a","t","c","h","i","n","g"," ","y","o","u","r"," ","c","o","m","b","i","n","e","d"," ","c","r","i","t","e","r","i","a","."," ","W","o","u","l","d"," ","y","o","u"," ","l","i","k","e"," ","t","o"," ","a","d","j","u","s","t"," ","y","o","u","r"," ","p","r","e","f","e","r","e","n","c","e","s","?">>

-----------------------------------------------------------------------------
(* get_chatbot_response *)

\* one `if 'key' in current_filters: summary.append(text)`
PartIf(present, text) == IF present THEN <<text>> ELSE <<>>

\* src/app.py:654-660 and 696-702: the price phrase
PricePart(cf) ==
    IF Has(cf, "price_min") /\ Has(cf, "price_max")
    THEN IF cf["price_min"] = cf["price_max"]
         THEN <<Text.around \o str(cf["price_min"])>>
         ELSE <<Text.between \o str(cf["price_min"]) \o Text.and \o str(cf["price_max"])>>
    ELSE IF Has(cf, "price_max") THEN <<Text.under \o str(cf["price_max"])>>
    ELSE IF Has(cf, "price_min") THEN <<Text.over \o str(cf["price_min"])>>
    ELSE <<>>

\* f"{prefix}{cf[key]}{suffix}" if key in cf
NumberPart(cf, key, prefix, suffix) ==
    IF Has(cf, key) THEN <<prefix \o str(cf[key]) \o suffix>> ELSE <<>>

\* src/app.py:653-672 and 695-715: the parts of the summary, in order
SummaryParts(cf) ==
    (IF Has(cf, "brand") THEN <<Text.a \o cf["brand"] \o Text.phone>> ELSE <<>>)
    \o PricePart(cf)
    \o NumberPart(cf, "ram_min", Text.with_at_least, Text.gb_ram)
    \o NumberPart(cf, "storage_min", Text.with_at_least, Text.gb_storage)
    \o NumberPart(cf, "battery_capacity_mah", Text.with_at_least, Text.mah_battery)
    \o PartIf(Has(cf, "keyword_gaming"), Text.for_gaming)
    \o PartIf(Has(cf, "keyword_camera"), Text.good_camera)
    \o PartIf(Has(cf, "keyword_battery") /\ ~Has(cf, "battery_capacity_mah"), Text.long_battery)
    \o PartIf(Has(cf, "keyword_display"), Text.great_display)
    \o PartIf(Has(cf, "keyword_compact"), Text.compact_size)
    \o PartIf(Has(cf, "keyword_premium"), Text.premium_model)

\* src/app.py:620-621 and 625-626: pop the last message if it is the
\* assistant's confirmation prompt
DropConfirmationPrompt(msgs) ==
    IF /\ Len(msgs) > 0
       /\ msgs[Len(msgs)].role = "assistant"
       /\ Contains(msgs[Len(msgs)].content, ConfirmationMarker)
    THEN SubSeq(msgs, 1, Len(msgs) - 1)
    ELSE msgs

\* ConfirmationStep leaving the flag set after an affirmative reply
ConfirmationStep_FlagKept(user_message_lower, awaiting, msgs) ==
    IF awaiting /\ ContainsAny(user_message_lower, AffirmativeWords)
    THEN [trigger_search |-> TRUE, awaiting |-> awaiting,
          msgs |-> DropConfirmationPrompt(msgs), response |-> <<>>]
    ELSE IF awaiting /\ ContainsAny(user_message_lower, NegativeWords)
    THEN [trigger_search |-> FALSE, awaiting |-> FALSE,
          msgs |-> DropConfirmationPrompt(msgs), response |-> DenialResponse]
    ELSE [trigger_search |-> FALSE, awaiting |-> awaiting,
          msgs |-> msgs, response |-> <<>>]

\* ConfirmationStep leaving the flag set after a negative reply
ConfirmationStep_DenialKeepsFlag(user_message_lower, awaiting, msgs) ==
    IF awaiting /\ ContainsAny(user_message_lower, AffirmativeWords)
    THEN [trigger_search |-> TRUE, awaiting |-> FALSE,
          msgs |-> DropConfirmationPrompt(msgs), response |-> <<>>]
    ELSE IF awaiting /\ ContainsAny(user_message_lower, NegativeWords)
    THEN [trigger_search |-> FALSE, awaiting |-> awaiting,
          msgs |-> DropConfirmationPrompt(msgs), response |-> DenialResponse]
    ELSE [trigger_search |-> FALSE, awaiting |-> awaiting,
          msgs |-> msgs, response |-> <<>>]

\* ConfirmationStep dropping the pending confirmation on an unclear reply
ConfirmationStep_UnclearClears(user_message_lower, awaiting, msgs) ==
    IF awaiting /\ ContainsAny(user_message_lower, AffirmativeWords)
    THEN [trigger_search |-> TRUE, awaiting |-> FALSE,
          msgs |-> DropConfirmationPrompt(msgs), response |-> <<>>]
    ELSE IF awaiting /\ ContainsAny(user_message_lower, NegativeWords)
    THEN [trigger_search |-> FALSE, awaiting |-> FALSE,
          msgs |-> DropConfirmationPrompt(msgs), response |-> DenialResponse]
    ELSE [trigger_search |-> FALSE, awaiting |-> FALSE,
          msgs |-> msgs, response |-> <<>>]

\* ConfirmationStep taking an affirmative keyword for consent whether or not
\* a confirmation is pending
ConfirmationStep_AlwaysListening(user_message_lower, awaiting, msgs) ==
    IF ContainsAny(user_message_lower, AffirmativeWords)
    THEN [trigger_search |-> TRUE, awaiting |-> FALSE,
          msgs |-> DropConfirmationPrompt(msgs), response |-> <<>>]
    ELSE IF awaiting /\ ContainsAny(user_message_lower, NegativeWords)
    THEN [trigger_search |-> FALSE, awaiting |-> FALSE,
          msgs |-> DropConfirmationPrompt(msgs), response |-> DenialResponse]
    ELSE [trigger_search |-> FALSE, awaiting |-> awaiting,
          msgs |-> msgs, response |-> <<>>]

\* ConfirmationStep testing the negative keywords before the affirmative ones
ConfirmationStep_NegativeFirst(user_message_lower, awaiting, msgs) ==
    IF awaiting /\ ContainsAny(user_message_lower, NegativeWords)
    THEN [trigger_search |-> FALSE, awaiting |-> FALSE,
          msgs |-> DropConfirmationPrompt(msgs), response |-> DenialResponse]
    ELSE IF awaiting /\ ContainsAny(user_message_lower, AffirmativeWords)
    THEN [trigger_search |-> TRUE, awaiting |-> FALSE,
          msgs |-> DropConfirmationPrompt(msgs), response |-> <<>>]
    ELSE [trigger_search |-> FALSE, awaiting |-> awaiting,
          msgs |-> msgs, response |-> <<>>]

\* src/app.py:615-632: the reply to a pending confirmation
ConfirmationStep(user_message_lower, awaiting, msgs) ==
    IF awaiting /\ ContainsAny(user_message_lower, AffirmativeWords)
    THEN [trigger_search |-> TRUE, awaiting |-> FALSE,
          msgs |-> DropConfirmationPrompt(msgs), response |-> <<>>]
    ELSE IF awaiting /\ ContainsAny(user_message_lower, NegativeWords)
    THEN [trigger_search |-> FALSE, awaiting |-> FALSE,
          msgs |-> DropConfirmationPrompt(msgs), response |-> DenialResponse]
    ELSE [trigger_search |-> FALSE, awaiting |-> awaiting,
          msgs |-> msgs, response |-> <<>>]

\* MergeStep replacing the constraints held by those of the utterance
MergeStep_Replace(cf, extracted_new_filters) ==
    IF NonEmpty(extracted_new_filters) THEN extracted_new_filters ELSE cf

\* MergeStep leaving the constraints of the utterance out once some are held
MergeStep_FirstOnly(cf, extracted_new_filters) ==
    IF NonEmpty(cf) THEN cf ELSE extracted_new_filters

\* src/app.py:637-638
MergeStep(cf, extracted_new_filters) ==
    IF NonEmpty(extracted_new_filters) THEN update(cf, extracted_new_filters) ELSE cf

\* ExplicitSearchStep leaving the flag as the confirmation step left it
ExplicitSearchStep_FlagKept(user_message_lower, cf, c) ==
    IF ~c.trigger_search /\ ContainsAny(user_message_lower, SearchPhrases)
    THEN IF NonEmpty(cf)
         THEN [trigger_search |-> TRUE, awaiting |-> c.awaiting, msgs |-> c.msgs,
               response |-> c.response, returned |-> FALSE]
         ELSE [trigger_search |-> c.trigger_search, awaiting |-> c.awaiting, msgs |-> c.msgs,
               response |-> CriteriaNeededResponse, returned |-> TRUE]
    ELSE [trigger_search |-> c.trigger_search, awaiting |-> c.awaiting, msgs |-> c.msgs,
          response |-> c.response, returned |-> FALSE]

\* ExplicitSearchStep searching whether or not a constraint is held
ExplicitSearchStep_Unconditional(user_message_lower, cf, c) ==
    IF ~c.trigger_search /\ ContainsAny(user_message_lower, SearchPhrases)
    THEN [trigger_search |-> TRUE, awaiting |-> FALSE, msgs |-> c.msgs,
          response |-> c.response, returned |-> FALSE]
    ELSE [trigger_search |-> c.trigger_search, awaiting |-> c.awaiting, msgs |-> c.msgs,
          response |-> c.response, returned |-> FALSE]

\* ExplicitSearchStep returning early without a response
ExplicitSearchStep_NoResponse(user_message_lower, cf, c) ==
    IF ~c.trigger_search /\ ContainsAny(user_message_lower, SearchPhrases)
    THEN IF NonEmpty(cf)
         THEN [trigger_search |-> TRUE, awaiting |-> FALSE, msgs |-> c.msgs,
               response |-> c.response, returned |-> FALSE]
         ELSE [trigger_search |-> c.trigger_search, awaiting |-> c.awaiting, msgs |-> c.msgs,
               response |-> c.response, returned |-> TRUE]
    ELSE [trigger_search |-> c.trigger_search, awaiting |-> c.awaiting, msgs |-> c.msgs,
          response |-> c.response, returned |-> FALSE]

\* src/app.py:642-648: an explicit search command, after the confirmation
\* step c; returned is the early return of line 648
ExplicitSearchStep(user_message_lower, cf, c) ==
    IF ~c.trigger_search /\ ContainsAny(user_message_lower, SearchPhrases)
    THEN IF NonEmpty(cf)
         THEN [trigger_search |-> TRUE, awaiting |-> FALSE, msgs |-> c.msgs,
               response |-> c.response, returned |-> FALSE]
         ELSE [trigger_search |-> c.trigger_search, awaiting |-> c.awaiting, msgs |-> c.msgs,
               response |-> CriteriaNeededResponse, returned |-> TRUE]
    ELSE [trigger_search |-> c.trigger_search, awaiting |-> c.awaiting, msgs |-> c.msgs,
          response |-> c.response, returned |-> FALSE]

\* src/app.py:674-677
SearchText(filter_summary_parts) ==
    IF filter_summary_parts # <<>>
    THEN Text.searching_for \o join(Text.comma, filter_summary_parts) \o Text.now
    ELSE SearchDiscussedResponse

\* src/app.py:651-678: the acknowledgment of a search
SearchResponse(cf) == SearchText(SummaryParts(cf))

\* src/app.py:729-732
ConfirmationPrompt(summary) ==
    IF summary # <<>>
    THEN Text.so_far \o join(Text.comma, summary) \o Text.sound_right
    ELSE NotedPreferencesResponse

\* NextQuestion asking for the RAM before the budget
NextQuestion_RamFirst(cf, awaiting, summary) ==
    IF ~Has(cf, "ram_min")
    THEN [response |-> RamQuestion, awaiting |-> awaiting]
    ELSE IF ~Has(cf, "price_max") /\ ~Has(cf, "price_min")
    THEN [response |-> BudgetQuestion, awaiting |-> awaiting]
    ELSE IF ~Has(cf, "storage_min")
    THEN [response |-> StorageQuestion, awaiting |-> awaiting]
    ELSE IF ~Has(cf, "battery_capacity_mah") /\ ~Has(cf, "keyword_battery")
    THEN [response |-> BatteryQuestion, awaiting |-> awaiting]
    ELSE IF ~Has(cf, "brand") /\ Len(summary) < 3
    THEN [response |-> BrandFeatureQuestion, awaiting |-> awaiting]
    ELSE [response |-> ConfirmationPrompt(summary), awaiting |-> TRUE]

\* NextQuestion asking for a brand or feature however long the summary is
NextQuestion_BrandAlways(cf, awaiting, summary) ==
    IF ~Has(cf, "price_max") /\ ~Has(cf, "price_min")
    THEN [response |-> BudgetQuestion, awaiting |-> awaiting]
    ELSE IF ~Has(cf, "ram_min")
    THEN [response |-> RamQuestion, awaiting |-> awaiting]
    ELSE IF ~Has(cf, "storage_min")
    THEN [response |-> StorageQuestion, awaiting |-> awaiting]
    ELSE IF ~Has(cf, "battery_capacity_mah") /\ ~Has(cf, "keyword_battery")
    THEN [response |-> BatteryQuestion, awaiting |-> awaiting]
    ELSE IF ~Has(cf, "brand")
    THEN [response |-> BrandFeatureQuestion, awaiting |-> awaiting]
    ELSE [response |-> ConfirmationPrompt(summary), awaiting |-> TRUE]

\* NextQuestion setting the flag with the RAM question already
NextQuestion_PendingEarly(cf, awaiting, summary) ==
    IF ~Has(cf, "price_max") /\ ~Has(cf, "price_min")
    THEN [response |-> BudgetQuestion, awaiting |-> awaiting]
    ELSE IF ~Has(cf, "ram_min")
    THEN [response |-> RamQuestion, awaiting |-> TRUE]
    ELSE IF ~Has(cf, "storage_min")
    THEN [response |-> StorageQuestion, awaiting |-> awaiting]
    ELSE IF ~Has(cf, "battery_capacity_mah") /\ ~Has(cf, "keyword_battery")
    THEN [response |-> BatteryQuestion, awaiting |-> awaiting]
    ELSE IF ~Has(cf, "brand") /\ Len(summary) < 3
    THEN [response |-> BrandFeatureQuestion, awaiting |-> awaiting]
    ELSE [response |-> ConfirmationPrompt(summary), awaiting |-> TRUE]

\* NextQuestion asking for a brand or a feature while the summary has fewer
\* than five items
NextQuestion_FiveItems(cf, awaiting, summary) ==
    IF ~Has(cf, "price_max") /\ ~Has(cf, "price_min")
    THEN [response |-> BudgetQuestion, awaiting |-> awaiting]
    ELSE IF ~Has(cf, "ram_min")
    THEN [response |-> RamQuestion, awaiting |-> awaiting]
    ELSE IF ~Has(cf, "storage_min")
    THEN [response |-> StorageQuestion, awaiting |-> awaiting]
    ELSE IF ~Has(cf, "battery_capacity_mah") /\ ~Has(cf, "keyword_battery")
    THEN [response |-> BatteryQuestion, awaiting |-> awaiting]
    ELSE IF ~Has(cf, "brand") /\ Len(summary) < 5
    THEN [response |-> BrandFeatureQuestion, awaiting |-> awaiting]
    ELSE [response |-> ConfirmationPrompt(summary), awaiting |-> TRUE]

\* src/app.py:718-733: the first gap decides the question; with no gap the
\* confirmation prompt is issued and the flag set
NextQuestion(cf, awaiting, summary) ==
    IF ~Has(cf, "price_max") /\ ~Has(cf, "price_min")
    THEN [response |-> BudgetQuestion, awaiting |-> awaiting]
    ELSE IF ~Has(cf, "ram_min")
    THEN [response |-> RamQuestion, awaiting |-> awaiting]
    ELSE IF ~Has(cf, "storage_min")
    THEN [response |-> StorageQuestion, awaiting |-> awaiting]
    ELSE IF ~Has(cf, "battery_capacity_mah") /\ ~Has(cf, "keyword_battery")
    THEN [response |-> BatteryQuestion, awaiting |-> awaiting]
    ELSE IF ~Has(cf, "brand") /\ Len(summary) < 3
    THEN [response |-> BrandFeatureQuestion, awaiting |-> awaiting]
    ELSE [response |-> ConfirmationPrompt(summary), awaiting |-> TRUE]

\* src/app.py:692-733
MissingInformationStep(cf, awaiting) == NextQuestion(cf, awaiting, SummaryParts(cf))

\* DialogueStep asking for what is missing even when nothing is gathered
DialogueStep_NoOpening(user_message_lower, cf, response, awaiting) ==
    IF response = <<>> /\ ContainsAny(user_message_lower, GreetingWords)
    THEN [response |-> GreetingResponse, awaiting |-> awaiting]
    ELSE IF response = <<>> /\ (\/ Contains(user_message_lower, Text.thank_you)
                                \/ Contains(user_message_lower, Text.thanks))
    THEN [response |-> ThanksResponse, awaiting |-> awaiting]
    ELSE IF response = <<>> /\ (\/ Contains(user_message_lower, Text.help)
                                \/ Contains(user_message_lower, Text.what_can_you_do))
    THEN [response |-> HelpResponse, awaiting |-> awaiting]
    ELSE IF response = <<>>
    THEN MissingInformationStep(cf, awaiting)
    ELSE [response |-> response, awaiting |-> awaiting]

\* DialogueStep asking for what is missing before it looks for a greeting,
\* thanks or help keyword
DialogueStep_QuestionFirst(user_message_lower, cf, response, awaiting) ==
    IF response = <<>> /\ NonEmpty(cf)
    THEN MissingInformationStep(cf, awaiting)
    ELSE IF response = <<>> /\ ContainsAny(user_message_lower, GreetingWords)
    THEN [response |-> GreetingResponse, awaiting |-> awaiting]
    ELSE IF response = <<>> /\ (\/ Contains(user_message_lower, Text.thank_you)
                                \/ Contains(user_message_lower, Text.thanks))
    THEN [response |-> ThanksResponse, awaiting |-> awaiting]
    ELSE IF response = <<>> /\ (\/ Contains(user_message_lower, Text.help)
                                \/ Contains(user_message_lower, Text.what_can_you_do))
    THEN [response |-> HelpResponse, awaiting |-> awaiting]
    ELSE IF response = <<>>
    THEN [response |-> StartingCriteriaResponse, awaiting |-> awaiting]
    ELSE [response |-> response, awaiting |-> awaiting]

\* src/app.py:684-733: the response of a turn that triggers no search
DialogueStep(user_message_lower, cf, response, awaiting) ==
    IF response = <<>> /\ ContainsAny(user_message_lower, GreetingWords)
    THEN [response |-> GreetingResponse, awaiting |-> awaiting]
    ELSE IF response = <<>> /\ (\/ Contains(user_message_lower, Text.thank_you)
                                \/ Contains(user_message_lower, Text.thanks))
    THEN [response |-> ThanksResponse, awaiting |-> awaiting]
    ELSE IF response = <<>> /\ (\/ Contains(user_message_lower, Text.help)
                                \/ Contains(user_message_lower, Text.what_can_you_do))
    THEN [response |-> HelpResponse, awaiting |-> awaiting]
    ELSE IF response = <<>> /\ ~NonEmpty(cf)
    THEN [response |-> StartingCriteriaResponse, awaiting |-> awaiting]
    ELSE IF response = <<>>
    THEN MissingInformationStep(cf, awaiting)
    ELSE [response |-> response, awaiting |-> awaiting]

\* src/app.py:736-739: the fallback and the return of a turn without search
FallbackStep(cf, msgs, d) ==
    [response |-> IF d.response = <<>> THEN FallbackResponse ELSE d.response,
     filters |-> cf, trigger_search |-> FALSE, awaiting |-> d.awaiting, msgs |-> msgs]

\* src/app.py:648-739: the three returns, after the explicit-search step e
Respond(user_message_lower, cf, e) ==
    IF e.returned
    THEN [response |-> e.response, filters |-> cf, trigger_search |-> e.trigger_search,
          awaiting |-> e.awaiting, msgs |-> e.msgs]
    ELSE IF e.trigger_search
    THEN [response |-> SearchResponse(cf), filters |-> cf, trigger_search |-> TRUE,
          awaiting |-> e.awaiting, msgs |-> e.msgs]
    ELSE FallbackStep(cf, e.msgs, DialogueStep(user_message_lower, cf, e.response, e.awaiting))

\* src/app.py:640-739 on the merged filters, after the confirmation step c
AfterMerge(user_message_lower, cf, c) ==
    Respond(user_message_lower, cf, ExplicitSearchStep(user_message_lower, cf, c))

\* src/app.py:606-739.  The session's awaiting_confirmation and messages,
\* which the function reads and writes, go in and come out with the rest:
\* [response, filters, trigger_search, awaiting, msgs]
get_chatbot_response(user_message, cf, awaiting, msgs) ==
    AfterMerge(lower(user_message),
               MergeStep(cf, extract_filters(user_message)),
               ConfirmationStep(lower(user_message), awaiting, msgs))

-----------
(* The session: the inputs, the initial state and one action per script run *)

Row_M14 ==
    [brand |-> <<"S","a","m","s","u","n","g">>, model |-> <<"M","1","4">>,
     launched_price_rs |-> 14000, ram_gb |-> 6, storage_gb |-> 128,
     battery_capacity_mah |-> 6000, back_camera_mp |-> 50, screen_size_inches |-> 66,
     Processor |-> <<"E","x","y","n","o","s"," ","1","3","3","0">>]

Row_Note ==
    [brand |-> <<"X","i","a","o","m","i">>, model |-> <<"N","o","t","e"," ","1","2">>,
     launched_price_rs |-> 18000, ram_gb |-> 8, storage_gb |-> 128,
     battery_capacity_mah |-> 5000, back_camera_mp |-> 48, screen_size_inches |-> 67,
     Processor |-> <<"S","n","a","p","d","r","a","g","o","n"," ","6","8","5">>]

Row_A05 ==
    [brand |-> <<"s","a","m","s","u","n","g">>, model |-> <<"A","0","5">>,
     launched_price_rs |-> 14000, ram_gb |-> 4, storage_gb |-> 64,
     battery_capacity_mah |-> 5000, back_camera_mp |-> 50, screen_size_inches |-> 60,
     Processor |-> <<>>]

Row_iPhone ==
    [brand |-> <<"A","p","p","l","e">>, model |-> <<"i","P","h","o","n","e"," ","1","4">>,
     launched_price_rs |-> 60000, ram_gb |-> 6, storage_gb |-> 128,
     battery_capacity_mah |-> 3300, back_camera_mp |-> 12, screen_size_inches |-> 61,
     Processor |-> <<"A","1","5"," ","B","i","o","n","i","c">>]

\* the catalogs load_data() may have produced: cleaned rows, unique on
\* (brand, model, ram_gb, storage_gb, launched_price_rs)
Catalog == <<Row_M14, Row_Note, Row_A05, Row_iPhone>>

Catalogs == {Catalog}

TieOrders == {"stable", "reversed"}

\* the utterances of the sessions explored
Said ==
    [
     \* "under 20000 8gb ram 128gb storage 5000 mah"
     all_four |->
         <<"u","n","d","e","r"," ","2","0","0","0","0"," ","8","g","b"," ","r","a","m"," ","1","2","8","g","b"," ","s","t","o","r","a","g","e"," ","5","0","0","0"," ","m","a","h">>,
     \* "under Rs20000"
     price |->
         <<"u","n","d","e","r"," ",RUPEE,"2","0","0","0","0">>,
     \* "8GB RAM"
     ram |->
         <<"8","G","B"," ","R","A","M">>,
     \* "128gb storage"
     storage |->
         <<"1","2","8","g","b"," ","s","t","o","r","a","g","e">>,
     \* "5000 mAh"
     battery |->
         <<"5","0","0","0"," ","m","A","h">>,
     \* "good battery"
     good_battery |->
         <<"g","o","o","d"," ","b","a","t","t","e","r","y">>,
     \* "yes"
     yes |->
         <<"y","e","s">>,
     \* "no"
     no |->
         <<"n","o">>,
     \* "results"
     results |->
         <<"r","e","s","u","l","t","s">>,
     \* "no results"
     no_results |->
         <<"n","o"," ","r","e","s","u","l","t","s">>,
     \* "ok not now"
     ok_not_now |->
         <<"o","k"," ","n","o","t"," ","n","o","w">>,
     \* "search"
     search |->
         <<"s","e","a","r","c","h">>,
     \* "hello"
     hello |->
         <<"h","e","l","l","o">>,
     \* "thanks"
     thanks |->
         <<"t","h","a","n","k","s">>,
     \* "help"
     help |->
         <<"h","e","l","p">>,
     \* "hmm"
     hmm |->
         <<"h","m","m">>,
     \* "over 90000"
     over |->
         <<"o","v","e","r"," ","9","0","0","0","0">>,
     \* "around 30000"
     around |->
         <<"a","r","o","u","n","d"," ","3","0","0","0","0">>,
     \* "under 10000"
     under_low |->
         <<"u","n","d","e","r"," ","1","0","0","0","0">>,
     \* "samsung"
     samsung |->
         <<"s","a","m","s","u","n","g">>,
     \* "cheap"
     budget |->
         <<"c","h","e","a","p">>,
     \* "no 6gb ram"
     no_6gb |->
         <<"n","o"," ","6","g","b"," ","r","a","m">>,
     \* "search under 20000"
     search_under |->
         <<"s","e","a","r","c","h"," ","u","n","d","e","r"," ","2","0","0","0","0">>]

\* what the user may type in chat mode
Utterances ==
    {Said.all_four, Said.price, Said.ram, Said.storage, Said.battery, Said.good_battery, Said.yes, Said.no,
     Said.results, Said.no_results, Said.ok_not_now, Said.search, Said.hello, Said.thanks, Said.help, Said.hmm,
     Said.over, Said.around, Said.under_low, Said.samsung, Said.budget, Said.no_6gb,
     Said.search_under}

\* what the user may type in the direct-search form
Queries == {Said.all_four, Said.price, Said.hmm, Said.budget, Said.over}

\* a chat turn is accepted while the transcript is shorter than this
MaxMessages == 5

\* st.session_state.mode = None
NoneMode == "None"

Message(role, content) == [role |-> role, content |-> content]

\* the record of a script run that processed no chat turn
NoTurn(kind) ==
    [kind |-> kind, prompt |-> <<>>, was_awaiting |-> FALSE, filters_before |-> EmptyDict,
     extracted |-> EmptyDict, merged |-> EmptyDict, response |-> <<>>,
     trigger_search |-> FALSE, found_rows |-> -1]

\* src/app.py:588-603
Init ==
    /\ df \in Catalogs
    /\ tie_order \in TieOrders
    /\ query = <<>>
    /\ filtered_df = EmptyFrame
    /\ show_results = FALSE
    /\ messages = <<>>
    /\ current_filters = EmptyDict
    /\ mode = NoneMode
    /\ show_results_display = FALSE
    /\ awaiting_confirmation = FALSE
    /\ pc = "ready"
    /\ last = NoTurn("start")

\* WithoutNoPhones taking the status message of the search out as well
WithoutNoPhones_NorStatus(msgs) ==
    SelectSeq(msgs, LAMBDA m : /\ ~Contains(m.content, NoPhonesMarker)
                               /\ ~Contains(m.content, SearchingNowMessage))

\* src/app.py:902: the transcript without the no-results messages
WithoutNoPhones(msgs) ==
    SelectSeq(msgs, LAMBDA m : ~Contains(m.content, NoPhonesMarker))

\* RenderChat leaving the rows it showed in the buffer
RenderChat_BufferKept(fdf, cf, awaiting, msgs) ==
    IF fdf # EmptyFrame
    THEN [filtered_df |-> fdf, current_filters |-> EmptyDict,
          awaiting |-> FALSE, msgs |-> msgs]
    ELSE [filtered_df |-> fdf, current_filters |-> cf, awaiting |-> awaiting,
          msgs |-> IF \E k \in 1..Len(msgs) : Contains(msgs[k].content, NoPhonesMarker)
                   THEN WithoutNoPhones(msgs)
                   ELSE msgs]

\* src/app.py:853-902: what rendering the chat page does to the session,
\* as [filtered_df, current_filters, awaiting, msgs]
RenderChat(fdf, cf, awaiting, msgs) ==
    IF fdf # EmptyFrame
    THEN [filtered_df |-> EmptyFrame, current_filters |-> EmptyDict,
          awaiting |-> FALSE, msgs |-> msgs]
    ELSE [filtered_df |-> fdf, current_filters |-> cf, awaiting |-> awaiting,
          msgs |-> IF \E k \in 1..Len(msgs) : Contains(msgs[k].content, NoPhonesMarker)
                   THEN WithoutNoPhones(msgs)
                   ELSE msgs]

\* src/app.py:915-916: the response joins the transcript unless it is the
\* acknowledgment of a search
WithReply(r) ==
    IF ~Contains(r.response, SearchingMarker)
    THEN Append(r.msgs, Message("assistant", r.response))
    ELSE r.msgs

\* SearchStep keeping the constraints it searched with
SearchStep_FiltersKept(r, msgs, found) ==
    [filtered_df |-> found,
     current_filters |-> r.filters,
     awaiting |-> r.awaiting,
     msgs |-> IF found = EmptyFrame
              THEN Append(Append(msgs, Message("assistant", SearchingNowMessage)),
                          Message("assistant", NoPhonesMessage))
              ELSE Append(msgs, Message("assistant", SearchingNowMessage)),
     reply |-> r]

\* SearchStep saying nothing when no row matched
SearchStep_NoNotice(r, msgs, found) ==
    [filtered_df |-> found,
     current_filters |-> EmptyDict,
     awaiting |-> r.awaiting,
     msgs |-> Append(msgs, Message("assistant", SearchingNowMessage)),
     reply |-> r]

\* src/app.py:918-926: the search of a turn, found being filter_data's result
SearchStep(r, msgs, found) ==
    [filtered_df |-> found,
     current_filters |-> EmptyDict,
     awaiting |-> r.awaiting,
     msgs |-> IF found = EmptyFrame
              THEN Append(Append(msgs, Message("assistant", SearchingNowMessage)),
                          Message("assistant", NoPhonesMessage))
              ELSE Append(msgs, Message("assistant", SearchingNowMessage)),
     reply |-> r]

\* src/app.py:911-926: the session after get_chatbot_response returned r
AfterReply(s, r) ==
    IF r.trigger_search
    THEN SearchStep(r, WithReply(r), filter_data(df, r.filters))
    ELSE [filtered_df |-> s.filtered_df, current_filters |-> r.filters,
          awaiting |-> r.awaiting, msgs |-> WithReply(r), reply |-> r]

\* src/app.py:908-926: the turn handler on the session s
\* [filtered_df, current_filters, awaiting, msgs]
HandlePrompt(prompt, s) ==
    AfterReply(s, get_chatbot_response(prompt, s.current_filters, s.awaiting,
                                       Append(s.msgs, Message("user", prompt))))

\* the session variables take the values of s
SessionBecomes(s) ==
    /\ filtered_df' = s.filtered_df
    /\ current_filters' = s.current_filters
    /\ awaiting_confirmation' = s.awaiting
    /\ messages' = s.msgs

\* what a chat turn leaves in `last`: s the session the handler started
\* from, t the session it left; found_rows counts the rows of the search,
\* -1 when there was none
TurnRecord(prompt, s, t) ==
    [kind |-> "turn", prompt |-> prompt, was_awaiting |-> s.awaiting,
     filters_before |-> s.current_filters, extracted |-> extract_filters(prompt),
     merged |-> t.reply.filters, response |-> t.reply.response,
     trigger_search |-> t.reply.trigger_search,
     found_rows |-> IF t.reply.trigger_search THEN Len(t.filtered_df) ELSE -1]

TurnEffect(prompt, s, t) ==
    /\ SessionBecomes(t)
    /\ last' = TurnRecord(prompt, s, t)

\* src/app.py:753-757: the "Chat with Advisor" button
ChooseChat ==
    /\ pc = "ready"
    /\ mode = NoneMode
    /\ mode' = "chat"
    /\ show_results' = TRUE
    /\ messages' = Append(messages, Message("assistant", ChatWelcomeMessage))
    /\ pc' = "rerun"
    /\ last' = NoTurn("choose_chat")
    /\ UNCHANGED <<df, tie_order, query, filtered_df, current_filters,
                   show_results_display, awaiting_confirmation>>

\* src/app.py:758-761: the "Direct Search" button
ChooseDirect ==
    /\ pc = "ready"
    /\ mode = NoneMode
    /\ mode' = "direct_search"
    /\ show_results' = TRUE
    /\ pc' = "rerun"
    /\ last' = NoTurn("choose_direct")
    /\ UNCHANGED <<df, tie_order, query, filtered_df, messages, current_filters,
                   show_results_display, awaiting_confirmation>>

\* src/app.py:841-906: a script run with no input; in chat mode it renders
\* the transcript and the result buffer
Render ==
    /\ IF show_results /\ mode = "chat"
       THEN SessionBecomes(RenderChat(filtered_df, current_filters,
                                      awaiting_confirmation, messages))
       ELSE UNCHANGED <<filtered_df, current_filters, awaiting_confirmation, messages>>
    /\ pc' = "ready"
    /\ UNCHANGED <<df, tie_order, query, show_results, mode, show_results_display, last>>

\* src/app.py:841-927: the script run in which st.chat_input returns a prompt:
\* the page is rendered, then the prompt is handled, then st.rerun()
ChatTurn(prompt) ==
    /\ pc = "ready"
    /\ show_results
    /\ mode = "chat"
    /\ TurnEffect(prompt,
                  RenderChat(filtered_df, current_filters, awaiting_confirmation, messages),
                  HandlePrompt(prompt, RenderChat(filtered_df, current_filters,
                                                  awaiting_confirmation, messages)))
    /\ df' = IF last'.trigger_search THEN CatalogAfterFilter(df, last'.merged) ELSE df
    /\ pc' = "rerun"
    /\ UNCHANGED <<tie_order, query, show_results, mode, show_results_display>>

\* src/app.py:929-935: the "Reset Chat and Search" button's on_click
ResetChat ==
    /\ pc = "ready"
    /\ show_results
    /\ mode = "chat"
    /\ query' = <<>>
    /\ filtered_df' = EmptyFrame
    /\ show_results' = FALSE
    /\ messages' = <<>>
    /\ current_filters' = EmptyDict
    /\ mode' = NoneMode
    /\ show_results_display' = FALSE
    /\ awaiting_confirmation' = FALSE
    /\ last' = NoTurn("reset_chat")
    /\ UNCHANGED <<df, tie_order, pc>>

\* src/app.py:940-951: the fixed "Back to Home" button, in either mode
BackToHome ==
    /\ pc = "ready"
    /\ show_results
    /\ query' = <<>>
    /\ filtered_df' = EmptyFrame
    /\ show_results' = FALSE
    /\ messages' = <<>>
    /\ current_filters' = EmptyDict
    /\ mode' = NoneMode
    /\ show_results_display' = FALSE
    /\ awaiting_confirmation' = FALSE
    /\ pc' = "rerun"
    /\ last' = NoTurn("back_to_home")
    /\ UNCHANGED <<df, tie_order>>

\* src/app.py:779-788: the "Back to Home" button of the direct-search page
BackToHomeDirect ==
    /\ pc = "ready"
    /\ show_results
    /\ mode = "direct_search"
    /\ query' = <<>>
    /\ filtered_df' = EmptyFrame
    /\ show_results' = FALSE
    /\ mode' = NoneMode
    /\ show_results_display' = FALSE
    /\ messages' = <<>>
    /\ current_filters' = EmptyDict
    /\ awaiting_confirmation' = FALSE
    /\ pc' = "rerun"
    /\ last' = NoTurn("back_to_home_direct")
    /\ UNCHANGED <<df, tie_order>>

\* DirectSubmit gathering the constraints of the queries as the dialogue does
DirectSubmit_Accumulates(user_input_direct) ==
    /\ pc = "ready"
    /\ show_results
    /\ mode = "direct_search"
    /\ query' = user_input_direct
    /\ current_filters' = MergeStep(current_filters, extract_filters(user_input_direct))
    /\ filtered_df' = filter_data(df, current_filters')
    /\ df' = CatalogAfterFilter(df, current_filters')
    /\ show_results_display' = TRUE
    /\ last' = NoTurn("direct_submit")
    /\ UNCHANGED <<tie_order, show_results, messages, mode,
                   awaiting_confirmation, pc>>

\* src/app.py:790-795: the direct-search form is submitted
DirectSubmit(user_input_direct) ==
    /\ pc = "ready"
    /\ show_results
    /\ mode = "direct_search"
    /\ query' = user_input_direct
    /\ filtered_df' = filter_data(df, extract_filters(user_input_direct))
    /\ df' = CatalogAfterFilter(df, extract_filters(user_input_direct))
    /\ show_results_display' = TRUE
    /\ last' = NoTurn("direct_submit")
    /\ UNCHANGED <<tie_order, show_results, messages, current_filters, mode,
                   awaiting_confirmation, pc>>

Turn == \E prompt \in Utterances : Len(messages) < MaxMessages /\ ChatTurn(prompt)

Submit == \E q \in Queries : DirectSubmit(q)

Next ==
    \/ ChooseChat
    \/ ChooseDirect
    \/ Render
    \/ Turn
    \/ ResetChat
    \/ BackToHome
    \/ BackToHomeDirect
    \/ Submit

Spec == Init /\ [][Next]_vars

\* A chat session of single-purpose turns, long enough to supply price, RAM,
\* storage and battery one turn at a time.
GatherUtterances ==
    {Said.all_four, Said.price, Said.ram, Said.storage, Said.battery, Said.yes}

\* a turn of the gathering session is accepted while the transcript is
\* shorter than this
MaxGatherMessages == 9

GatherTurn ==
    \E prompt \in GatherUtterances : Len(messages) < MaxGatherMessages /\ ChatTurn(prompt)

NextGather ==
    \/ ChooseChat
    \/ Render
    \/ GatherTurn
    \/ ResetChat
    \/ BackToHome

SpecGather == Init /\ [][NextGather]_vars

-----------
(* The functions on their own: one call of the merge of constraints, of
   filter_data, of extract_filters or of fetch_image_url on inputs drawn
   from bounded sets *)

\* a row whose battery lies between the two thresholds a battery constraint
\* can set
Row_C12 ==
    [brand |-> <<"N","o","k","i","a">>, model |-> <<"C","1","2">>,
     launched_price_rs |-> 9000, ram_gb |-> 4, storage_gb |-> 64,
     battery_capacity_mah |-> 4200, back_camera_mp |-> 8, screen_size_inches |-> 63,
     Processor |-> <<"U","n","i","s","o","c">>]

\* the inputs of the calls.
\*   constraint_sets: what a merge may meet: each of price_max, ram_min,
\*     brand and keyword_gaming absent or with one of a few values;
\*   filter_sets: what filter_data may meet: bounds, brand and battery in
\*     every combination, and the battery and budget keywords with and
\*     without the bounds they interact with;
\*   wider_catalog: a catalog of five rows, the four of Catalog in the other
\*     order;
\*   utterances: what extract_filters is called on, a price phrase or a
\*     GB amount with something before it and something after it;
\*   names: the phone names fetch_image_url is called with (src/app.py:810);
\*   searches: what the image search does in a call: it raises, or it
\*     returns no result, one result or two.
\* In the generators 0 and the empty string stand for an absent key.
Inputs ==
    LET PutSome(d, k, v, values) == IF v \in values THEN Put(d, k, v) ELSE d
        PricePhrases ==
            {
             \* "under Rs20000"
             <<"u","n","d","e","r"," ",RUPEE,"2","0","0","0","0">>,
             \* "Under Rs9000"
             <<"U","n","d","e","r"," ",RUPEE,"9","0","0","0">>,
             \* "Rs12000 to Rs18000"
             <<RUPEE,"1","2","0","0","0"," ","t","o"," ",RUPEE,"1","8","0","0","0">>}
        WordsBefore ==
            {
             \* ""
             <<>>,
             \* "a phone "
             <<"a"," ","p","h","o","n","e"," ">>,
             \* "over Rs5000 "
             <<"o","v","e","r"," ",RUPEE,"5","0","0","0"," ">>,
             \* "around Rs30000 "
             <<"a","r","o","u","n","d"," ",RUPEE,"3","0","0","0","0"," ">>,
             \* "under Rs500 "
             <<"u","n","d","e","r"," ",RUPEE,"5","0","0"," ">>,
             \* "Rs10000 to Rs15000 "
             <<RUPEE,"1","0","0","0","0"," ","t","o"," ",RUPEE,"1","5","0","0","0"," ">>,
             \* "8gb ram "
             <<"8","g","b"," ","r","a","m"," ">>}
        WordsAfter ==
            {
             \* ""
             <<>>,
             \* " please"
             <<" ","p","l","e","a","s","e">>,
             \* " over Rs5000"
             <<" ","o","v","e","r"," ",RUPEE,"5","0","0","0">>,
             \* " around Rs30000"
             <<" ","a","r","o","u","n","d"," ",RUPEE,"3","0","0","0","0">>,
             \* " under Rs500"
             <<" ","u","n","d","e","r"," ",RUPEE,"5","0","0">>,
             \* " Rs10000 to Rs15000"
             <<" ",RUPEE,"1","0","0","0","0"," ","t","o"," ",RUPEE,"1","5","0","0","0">>,
             \* " with 8gb ram"
             <<" ","w","i","t","h"," ","8","g","b"," ","r","a","m">>}
        GbBefore ==
            {
             \* ""
             <<>>,
             \* "min "
             <<"m","i","n"," ">>,
             \* "at least "
             <<"a","t"," ","l","e","a","s","t"," ">>,
             \* "phone with "
             <<"p","h","o","n","e"," ","w","i","t","h"," ">>}
        GbAmounts ==
            {
             \* "6gb"
             <<"6","g","b">>,
             \* "8 gb"
             <<"8"," ","g","b">>,
             \* "128gb"
             <<"1","2","8","g","b">>}
        GbAfter ==
            {
             \* ""
             <<>>,
             \* " ram"
             <<" ","r","a","m">>,
             \* " storage"
             <<" ","s","t","o","r","a","g","e">>,
             \* " rom"
             <<" ","r","o","m">>,
             \* " from samsung"
             <<" ","f","r","o","m"," ","s","a","m","s","u","n","g">>,
             \* " and 128gb storage"
             <<" ","a","n","d"," ","1","2","8","g","b"," ","s","t","o","r","a","g","e">>,
             \* " ram and 64gb rom"
             <<" ","r","a","m"," ","a","n","d"," ","6","4","g","b"," ","r","o","m">>}
    IN  [constraint_sets |->
            {PutSome(PutSome(PutSome(PutSome(EmptyDict,
                 "price_max", p, {15000, 20000}),
                 "ram_min", r, {6, 8}),
                 "brand", b, {<<"S","a","m","s","u","n","g">>}),
                 "keyword_gaming", g, {TRUE}) :
                p \in {0, 15000, 20000}, r \in {0, 6, 8},
                b \in {<<>>, <<"S","a","m","s","u","n","g">>}, g \in BOOLEAN},
         filter_sets |->
            {PutSome(PutSome(PutSome(PutSome(PutSome(PutSome(EmptyDict,
                 "price_max", pmax, {14000, 20000}),
                 "price_min", pmin, {14000}),
                 "ram_min", r, {6}),
                 "storage_min", s, {128}),
                 "brand", b, {<<"S","a","m","s","u","n","g">>, <<"N","o","k","i","a">>}),
                 "battery_capacity_mah", m, {5000}) :
                pmax \in {0, 14000, 20000}, pmin \in {0, 14000}, r \in {0, 6}, s \in {0, 128},
                b \in {<<>>, <<"S","a","m","s","u","n","g">>, <<"N","o","k","i","a">>},
                m \in {0, 5000}}
            \cup
            {PutSome(PutSome(PutSome(PutSome(PutSome(EmptyDict,
                 "price_max", pmax, {20000}),
                 "price_min", pmin, {14000}),
                 "battery_capacity_mah", m, {4000, 5000}),
                 "keyword_battery", kb, {TRUE}),
                 "keyword_budget", kg, {TRUE}) :
                pmax \in {0, 20000}, pmin \in {0, 14000}, m \in {0, 4000, 5000},
                kb \in BOOLEAN, kg \in BOOLEAN},
         wider_catalog |-> <<Row_iPhone, Row_C12, Row_A05, Row_Note, Row_M14>>,
         utterances |->
             {before \o phrase \o after :
                 before \in WordsBefore, phrase \in PricePhrases,
                 after \in WordsAfter}
             \cup
             {before \o amount \o after :
                 before \in GbBefore, amount \in GbAmounts, after \in GbAfter},
         names |->
             {Catalog[i].brand \o <<" ">> \o Catalog[i].model : i \in 1..Len(Catalog)},
         searches |->
             {[raises |-> TRUE, results |-> <<>>]}
             \cup
             {[raises |-> FALSE, results |-> found] :
                 found \in {<<>>,
                            <<[image |-> <<"h","t","t","p","s",":","/","/","a","/","m","1","4",".","j","p","g">>]>>,
                            <<[image |-> <<"h","t","t","p","s",":","/","/","b","/","1",".","p","n","g">>],
                              [image |-> <<"h","t","t","p","s",":","/","/","a","/","m","1","4",".","j","p","g">>]>>}}]

\* the arguments of one call are in place and no session is under way:
\* current_filters and extracted_new_filters before src/app.py:637, or df
\* and filters before src/app.py:154, or query before src/app.py:49, or the
\* name and the image search before src/app.py:226
InitPure ==
    /\ \/ /\ df = Catalog
          /\ tie_order = "stable"
          /\ query = <<>>
          /\ current_filters \in Inputs.constraint_sets
          /\ last \in {[NoTurn("merge_input") EXCEPT !.extracted = new] :
                         new \in Inputs.constraint_sets}
       \/ /\ df \in {Catalog, Inputs.wider_catalog}
          /\ tie_order \in TieOrders
          /\ query = <<>>
          /\ current_filters \in Inputs.filter_sets
          /\ last = NoTurn("filter_input")
       \/ /\ df = Catalog
          /\ tie_order = "stable"
          /\ query \in Inputs.utterances
          /\ current_filters = EmptyDict
          /\ last = NoTurn("extract_input")
       \/ /\ df = Catalog
          /\ tie_order = "stable"
          /\ query \in Inputs.names
          /\ current_filters = EmptyDict
          /\ last \in {[kind |-> "image_input", search |-> search] :
                         search \in Inputs.searches}
    /\ filtered_df = EmptyFrame
    /\ show_results = FALSE
    /\ messages = <<>>
    /\ mode = NoneMode
    /\ show_results_display = FALSE
    /\ awaiting_confirmation = FALSE
    /\ pc = "ready"

\* src/app.py:49-152: extract_filters, on its own
ApplyExtract ==
    /\ last.kind = "extract_input"
    /\ current_filters' = extract_filters(query)
    /\ last' = [last EXCEPT !.kind = "extracted", !.prompt = query,
                            !.extracted = current_filters']
    /\ pc' = "rerun"
    /\ UNCHANGED <<df, query, filtered_df, show_results, messages, mode,
                   show_results_display, awaiting_confirmation, tie_order>>

\* src/app.py:225-235: fetch_image_url, on its own, for the name in query
ApplyFetch ==
    /\ last.kind = "image_input"
    /\ last' = [kind |-> "image_fetched", search |-> last.search,
                outcome |-> fetch_image_url(query, last.search)]
    /\ pc' = "rerun"
    /\ UNCHANGED <<df, query, filtered_df, show_results, messages, current_filters,
                   mode, show_results_display, awaiting_confirmation, tie_order>>

\* src/app.py:154-222: filter_data, on its own, called once and then once
\* more with the same arguments
ApplyFilter ==
    /\ last.kind \in {"filter_input", "filtered"}
    /\ filtered_df' = filter_data(df, current_filters)
    /\ df' = CatalogAfterFilter(df, current_filters)
    /\ last' = [last EXCEPT !.kind = IF last.kind = "filter_input" THEN "filtered"
                                     ELSE "filtered_again",
                            !.filters_before = current_filters,
                            !.found_rows = Len(filtered_df')]
    /\ pc' = "rerun"
    /\ UNCHANGED <<query, show_results, messages, current_filters, mode,
                   show_results_display, awaiting_confirmation, tie_order>>

\* src/app.py:637-638: the merge, on its own
ApplyMerge ==
    /\ last.kind = "merge_input"
    /\ current_filters' = MergeStep(current_filters, last.extracted)
    /\ last' = [last EXCEPT !.kind = "merged", !.filters_before = current_filters,
                            !.merged = current_filters']
    /\ pc' = "rerun"
    /\ UNCHANGED <<df, query, filtered_df, show_results, messages, mode,
                   show_results_display, awaiting_confirmation, tie_order>>

NextPure ==
    \/ ApplyMerge
    \/ ApplyFilter
    \/ ApplyExtract
    \/ ApplyFetch

SpecPure == InitPure /\ [][NextPure]_vars

-----------
(* The properties of the dialogue.  `last` holds what the latest handler
   saw and answered; the other variables hold the session it left. *)

\* the utterance contains one of the affirmative keywords
IsAffirmative(prompt) == ContainsAny(lower(prompt), AffirmativeWords)

\* the utterance contains one of the negative keywords
IsNegative(prompt) == ContainsAny(lower(prompt), NegativeWords)

\* the utterance contains one of the explicit search commands
IsSearchCommand(prompt) == ContainsAny(lower(prompt), SearchPhrases)

\* the latest step was a chat turn
ChatTurnTaken == last.kind = "turn"

\* the accumulated constraints after merging what the utterance of the
\* latest turn held into what the session held before it
MergedOfLast ==
    IF NonEmpty(last.extracted) THEN update(last.filters_before, last.extracted)
    ELSE last.filters_before

\* the transcript holds a message carrying the text
InTranscript(text) == \E k \in 1..Len(messages) : Contains(messages[k].content, text)

\* C1: a turn taken while a confirmation is pending whose utterance contains
\* an affirmative keyword triggers a search and clears the pending flag, and
\* the search leaves the accumulated constraints empty.
C1_AffirmativeReplySearches ==
    (ChatTurnTaken /\ last.was_awaiting /\ IsAffirmative(last.prompt))
        => /\ last.trigger_search
           /\ last.found_rows >= 0
           /\ ~awaiting_confirmation
           /\ ~NonEmpty(current_filters)

\* C1: "yes" answered a confirmation prompt and the search found phones
C1_Witness ==
    /\ ChatTurnTaken /\ last.was_awaiting /\ IsAffirmative(last.prompt)
    /\ ~IsSearchCommand(last.prompt)
    /\ NonEmpty(last.filters_before)
    /\ last.trigger_search
    /\ filtered_df # EmptyFrame

\* C2: after a chat turn that ran a search, whether or not a row matched,
\* the accumulated constraints are empty and the pending flag is FALSE;
\* Reset Chat and Back to Home leave, besides, no transcript and no result.
C2_SearchAndResetsClear ==
    /\ (ChatTurnTaken /\ last.trigger_search)
           => /\ ~NonEmpty(current_filters)
              /\ ~awaiting_confirmation
    /\ last.kind \in {"reset_chat", "back_to_home", "back_to_home_direct"}
           => /\ ~NonEmpty(current_filters)
              /\ ~awaiting_confirmation
              /\ messages = <<>>
              /\ filtered_df = EmptyFrame

\* C2: a search that matched no row has just cleared constraints that were
\* not empty
C2_Witness ==
    /\ ChatTurnTaken /\ last.trigger_search
    /\ NonEmpty(last.merged)
    /\ last.found_rows = 0
    /\ InTranscript(NoPhonesMarker)
    /\ ~NonEmpty(current_filters)

\* C3: a turn whose utterance contains an explicit search command, the
\* accumulated constraints being non-empty after the merge, triggers a
\* search and leaves the pending flag FALSE.
C3_CommandWithCriteriaSearches ==
    (ChatTurnTaken /\ IsSearchCommand(last.prompt) /\ NonEmpty(MergedOfLast))
        => /\ last.trigger_search
           /\ last.found_rows >= 0
           /\ ~awaiting_confirmation

\* C3: a command that is no affirmative reply ("results") overrode a
\* pending confirmation
C3_Witness ==
    /\ ChatTurnTaken /\ IsSearchCommand(last.prompt)
    /\ ~IsAffirmative(last.prompt)
    /\ last.was_awaiting
    /\ NonEmpty(MergedOfLast)
    /\ last.trigger_search

\* C4: a turn whose utterance contains an explicit search command, the
\* accumulated constraints being empty after the merge, answers with the
\* message that criteria are needed, triggers no search, and leaves the
\* constraints empty and the pending flag as it was.
C4_CommandWithoutCriteriaAsks ==
    (ChatTurnTaken /\ IsSearchCommand(last.prompt) /\ ~NonEmpty(MergedOfLast))
        => /\ last.response = CriteriaNeededResponse
           /\ ~last.trigger_search
           /\ last.found_rows = -1
           /\ ~NonEmpty(current_filters)
           /\ awaiting_confirmation = last.was_awaiting

\* C4: "search" was said with nothing gathered, and the answer is in the
\* transcript
C4_Witness ==
    /\ ChatTurnTaken /\ IsSearchCommand(last.prompt)
    /\ ~NonEmpty(MergedOfLast)
    /\ InTranscript(CriteriaNeededResponse)
    /\ filtered_df = EmptyFrame

\* C5 as stated: a turn taken while a confirmation is pending whose
\* utterance contains a negative keyword and no affirmative keyword triggers
\* no search, clears the pending flag and answers with the prompt asking
\* what to change.
C5_NegativeReplyNeverSearches ==
    (ChatTurnTaken /\ last.was_awaiting
        /\ IsNegative(last.prompt) /\ ~IsAffirmative(last.prompt))
        => /\ ~last.trigger_search
           /\ ~awaiting_confirmation
           /\ last.response = DenialResponse

\* C5: a turn taken while a confirmation is pending whose utterance contains
\* a negative keyword, no affirmative keyword and no explicit search command
\* triggers no search, clears the pending flag and answers with the prompt
\* asking what to change.
C5_NegativeReplyAsksChanges ==
    (ChatTurnTaken /\ last.was_awaiting
        /\ IsNegative(last.prompt) /\ ~IsAffirmative(last.prompt)
        /\ ~IsSearchCommand(last.prompt))
        => /\ ~last.trigger_search
           /\ last.found_rows = -1
           /\ ~awaiting_confirmation
           /\ last.response = DenialResponse

\* C5: "no" answered a confirmation prompt; the constraints are kept
C5_Witness ==
    /\ ChatTurnTaken /\ last.was_awaiting
    /\ IsNegative(last.prompt) /\ ~IsAffirmative(last.prompt)
    /\ ~IsSearchCommand(last.prompt)
    /\ InTranscript(DenialResponse)
    /\ NonEmpty(current_filters)

\* C6 as stated: after a turn taken while a confirmation is pending whose
\* utterance contains an affirmative keyword, no message of the transcript
\* carries the confirmation prompt.
C6_ConfirmationPromptDropped ==
    (ChatTurnTaken /\ last.was_awaiting /\ IsAffirmative(last.prompt))
        => ~InTranscript(ConfirmationMarker)

\* a is a subsequence of b, from positions i and j on
RECURSIVE IsSubsequenceFrom(_, _, _, _)
IsSubsequenceFrom(a, i, b, j) ==
    IF i > Len(a) THEN TRUE
    ELSE IF j > Len(b) THEN FALSE
    ELSE IF a[i] = b[j] THEN IsSubsequenceFrom(a, i + 1, b, j + 1)
    ELSE IsSubsequenceFrom(a, i, b, j + 1)

\* every message of a is in b, in the same relative order
KeptInOrder(a, b) == IsSubsequenceFrom(a, 1, b, 1)

\* the step is Reset Chat or Back to Home
ExplicitReset == mode # NoneMode /\ mode' = NoneMode

\* the messages that do not carry the no-results text
NotNoResults(msgs) ==
    SelectSeq(msgs, LAMBDA m : ~Contains(m.content, NoPhonesMarker))

\* C7 as stated: a step other than an explicit reset keeps every message of
\* the transcript, in the same relative order.
C7_TranscriptOnlyGrows ==
    [][~ExplicitReset => KeptInOrder(messages, messages')]_vars

\* C7: a step other than an explicit reset keeps, in the same relative
\* order, every message of the transcript that does not carry the text
\* "No phones found matching your combined criteria."
C7_TranscriptKeepsAllButNoResults ==
    [][~ExplicitReset => KeptInOrder(NotNoResults(messages), messages')]_vars

\* C7: a search found nothing, and the render after it took the no-results
\* message out of the transcript and kept the rest
C7_Witness ==
    /\ ChatTurnTaken /\ last.trigger_search /\ last.found_rows = 0
    /\ pc = "ready"
    /\ ~InTranscript(NoPhonesMarker)
    /\ InTranscript(SearchingNowMessage)
    /\ Len(messages) >= 3

\* C8: every chat turn answers with a non-empty response, a search decision,
\* and the constraints the session held merged with those of the utterance.
C8_AlwaysResponds ==
    ChatTurnTaken
        => /\ Len(last.response) > 0
           /\ last.trigger_search \in BOOLEAN
           /\ last.merged = MergedOfLast

\* C8: an utterance with no constraint, command or courtesy, nothing being
\* gathered, got the opening question
C8_Witness ==
    /\ ChatTurnTaken
    /\ ~NonEmpty(last.merged)
    /\ ~IsSearchCommand(last.prompt)
    /\ last.response = StartingCriteriaResponse
    /\ InTranscript(StartingCriteriaResponse)

\* the responses of a greeting, of thanks, of a request for help and of a
\* denied confirmation
CourtesyResponses == {GreetingResponse, ThanksResponse, HelpResponse, DenialResponse}

\* the constraints hold a price bound
HasPrice(cf) == Has(cf, "price_max") \/ Has(cf, "price_min")

\* the constraints hold a battery capacity or the battery keyword
HasBattery(cf) == Has(cf, "battery_capacity_mah") \/ Has(cf, "keyword_battery")

\* the summary-and-confirm prompt for the constraints
SummaryPrompt(cf) == ConfirmationPrompt(SummaryParts(cf))

\* the response the first gap of the constraints calls for
FirstGapResponse(cf) ==
    CASE ~HasPrice(cf) -> BudgetQuestion
      [] HasPrice(cf) /\ ~Has(cf, "ram_min") -> RamQuestion
      [] HasPrice(cf) /\ Has(cf, "ram_min") /\ ~Has(cf, "storage_min") -> StorageQuestion
      [] HasPrice(cf) /\ Has(cf, "ram_min") /\ Has(cf, "storage_min") /\ ~HasBattery(cf)
            -> BatteryQuestion
      [] OTHER -> IF ~Has(cf, "brand") /\ Len(SummaryParts(cf)) < 3
                  THEN BrandFeatureQuestion
                  ELSE SummaryPrompt(cf)

\* C9: a turn that triggers no search and answers with no greeting, thanks,
\* help or denial, the accumulated constraints being non-empty, adds one
\* response to the transcript, the one of the first gap in the order price,
\* RAM, storage, battery, brand or feature (fewer than 3 summarized items),
\* else the summary-and-confirm prompt, which sets the pending flag; no
\* other turn and no other step sets the flag.
C9_FirstGapDecides ==
    /\ (ChatTurnTaken /\ ~last.trigger_search
            /\ last.response \notin CourtesyResponses /\ NonEmpty(last.merged))
           => /\ last.response = FirstGapResponse(last.merged)
              /\ Len(messages) >= 2
              /\ messages[Len(messages) - 1] = Message("user", last.prompt)
              /\ messages[Len(messages)] = Message("assistant", last.response)
              /\ last.response = SummaryPrompt(last.merged) => awaiting_confirmation
    /\ (ChatTurnTaken /\ awaiting_confirmation /\ ~last.was_awaiting)
           => /\ ~last.trigger_search
              /\ last.response = SummaryPrompt(last.merged)
    /\ ~ChatTurnTaken => ~awaiting_confirmation

\* C9: no gap was left and no brand is held; the summary-and-confirm prompt
\* set the flag
C9_Witness ==
    /\ ChatTurnTaken /\ ~last.trigger_search
    /\ ~Has(last.merged, "brand")
    /\ last.response = SummaryPrompt(last.merged)
    /\ Contains(last.response, ConfirmationMarker)
    /\ ~last.was_awaiting
    /\ awaiting_confirmation

\* price, RAM, storage and battery are all held
HasAllFour(cf) ==
    HasPrice(cf) /\ Has(cf, "ram_min") /\ Has(cf, "storage_min") /\ HasBattery(cf)

\* C10 as stated: a turn that starts with price, RAM, storage and battery
\* supplied answers with the summary-and-confirm prompt and sets the pending
\* flag.
C10_NextTurnConfirms ==
    (ChatTurnTaken /\ HasAllFour(last.filters_before))
        => /\ last.response = SummaryPrompt(last.merged)
           /\ awaiting_confirmation

\* C10: a turn after which price, RAM, storage and battery are all held,
\* which triggers no search and answers with no greeting, thanks, help or
\* denial, answers with the summary-and-confirm prompt and sets the pending
\* flag.
C10_CompleteCriteriaConfirm ==
    (ChatTurnTaken /\ HasAllFour(last.merged)
        /\ ~last.trigger_search /\ last.response \notin CourtesyResponses)
        => /\ last.response = SummaryPrompt(last.merged)
           /\ Contains(last.response, ConfirmationMarker)
           /\ awaiting_confirmation

\* C10: the fourth of four turns that each supplied one constraint got the
\* summary-and-confirm prompt
C10_Witness ==
    /\ ChatTurnTaken
    /\ Len(messages) = 9
    /\ Cardinality(DOMAIN last.filters_before) = 3
    /\ Cardinality(DOMAIN last.extracted) = 1
    /\ ~HasAllFour(last.filters_before)
    /\ HasAllFour(last.merged)
    /\ last.response = SummaryPrompt(last.merged)
    /\ awaiting_confirmation

\* the utterance contains a greeting, thanks or help keyword
HasCourtesyKeyword(prompt) ==
    \/ ContainsAny(lower(prompt), GreetingWords)
    \/ ContainsAny(lower(prompt), <<Text.thank_you, Text.thanks, Text.help, Text.what_can_you_do>>)

\* the latest turn started with nothing gathered and no confirmation pending,
\* and its utterance held no constraint and no greeting, thanks or help
\* keyword
IdleTurnWithNothingSaid ==
    /\ ChatTurnTaken
    /\ ~NonEmpty(last.filters_before) /\ ~last.was_awaiting
    /\ ~NonEmpty(last.extracted)
    /\ ~HasCourtesyKeyword(last.prompt)

\* C11 as stated: a turn from Idle whose utterance holds no constraint and
\* no greeting, thanks or help keyword is answered with the opening prompt,
\* searches nothing and leaves the constraints empty and the flag FALSE.
C11_IdleTurnGetsOpeningPrompt ==
    IdleTurnWithNothingSaid
        => /\ last.response = StartingCriteriaResponse
           /\ ~last.trigger_search
           /\ ~NonEmpty(current_filters)
           /\ ~awaiting_confirmation

\* C11: a turn from Idle whose utterance holds no constraint, no greeting,
\* thanks or help keyword and no explicit search command is answered with
\* the opening prompt, searches nothing and leaves the constraints empty and
\* the flag FALSE.
C11_IdleTurnWithoutCommandGetsOpeningPrompt ==
    (IdleTurnWithNothingSaid /\ ~IsSearchCommand(last.prompt))
        => /\ last.response = StartingCriteriaResponse
           /\ ~last.trigger_search
           /\ last.found_rows = -1
           /\ ~NonEmpty(current_filters)
           /\ ~awaiting_confirmation

\* C11: "hmm" was said from Idle and the session is still Idle
C11_Witness ==
    /\ IdleTurnWithNothingSaid /\ ~IsSearchCommand(last.prompt)
    /\ last.prompt = Said.hmm
    /\ messages[Len(messages)] = Message("assistant", StartingCriteriaResponse)
    /\ ~NonEmpty(current_filters)
    /\ ~awaiting_confirmation

\* the union of two constraint sets in which the second wins every key
\* they share
RightBiasedUnion(a, b) ==
    [k \in DOMAIN a \cup DOMAIN b |-> IF k \in DOMAIN b THEN b[k] ELSE a[k]]

\* the step is a chat turn
ChatTurnStep == pc = "ready" /\ pc' = "rerun" /\ last'.kind = "turn"

\* C12: a chat turn that runs no search leaves as accumulated constraints
\* the constraints held before it united with those of its utterance, the
\* utterance winning the keys they share.
C12_TurnWithoutSearchMerges ==
    [][(ChatTurnStep /\ ~last'.trigger_search)
          => current_filters' =
                 RightBiasedUnion(current_filters, extract_filters(last'.prompt))]_vars

\* C12: "no 6gb ram" denied a pending confirmation; the RAM bound was
\* replaced and the other constraints were kept
C12_Witness ==
    /\ ChatTurnTaken /\ ~last.trigger_search
    /\ last.was_awaiting /\ IsNegative(last.prompt)
    /\ last.response = DenialResponse
    /\ DOMAIN last.extracted = {"ram_min"}
    /\ Has(last.filters_before, "ram_min")
    /\ last.filters_before["ram_min"] # last.extracted["ram_min"]
    /\ current_filters = RightBiasedUnion(last.filters_before, last.extracted)
    /\ Has(current_filters, "price_max")

\* C13: the merge of two constraint sets has exactly the keys of the two
\* together, with the value of the new set for each of its keys and the
\* value of the existing set for every other key.
C13_MergeIsRightBiasedUnion ==
    last.kind = "merged"
        => /\ current_filters = last.merged
           /\ DOMAIN last.merged = DOMAIN last.filters_before \cup DOMAIN last.extracted
           /\ \A k \in DOMAIN last.extracted : last.merged[k] = last.extracted[k]
           /\ \A k \in DOMAIN last.filters_before \ DOMAIN last.extracted :
                  last.merged[k] = last.filters_before[k]

\* C13: two sets that disagree on price_max and each hold a key the other
\* lacks were merged; the new price_max won
C13_Witness ==
    /\ last.kind = "merged"
    /\ Has(last.filters_before, "price_max") /\ Has(last.extracted, "price_max")
    /\ last.filters_before["price_max"] = 15000
    /\ last.extracted["price_max"] = 20000
    /\ Has(last.filters_before, "ram_min") /\ ~Has(last.extracted, "ram_min")
    /\ Has(last.extracted, "brand") /\ ~Has(last.filters_before, "brand")
    /\ current_filters["price_max"] = 20000
    /\ DOMAIN current_filters = {"price_max", "ram_min", "brand"}

\* the row satisfies every bound, brand and battery constraint present
SatisfiesBounds(row, filters) ==
    /\ Has(filters, "price_max") => row.launched_price_rs <= filters["price_max"]
    /\ Has(filters, "price_min") => row.launched_price_rs >= filters["price_min"]
    /\ Has(filters, "ram_min") => row.ram_gb >= filters["ram_min"]
    /\ Has(filters, "storage_min") => row.storage_gb >= filters["storage_min"]
    /\ Has(filters, "brand") => lower(row.brand) = lower(filters["brand"])
    /\ Has(filters, "battery_capacity_mah")
           => row.battery_capacity_mah >= filters["battery_capacity_mah"]

\* the keys of the bounds, the brand and the battery capacity
BoundKeys ==
    {"price_max", "price_min", "ram_min", "storage_min", "brand", "battery_capacity_mah"}

\* C14: on a constraint set of bounds, brand and battery capacity only,
\* filter_data returns the rows of the catalog that satisfy every constraint
\* present, in the order of the catalog.
C14_FilterKeepsExactlyTheMatches ==
    (last.kind = "filtered" /\ DOMAIN current_filters \subseteq BoundKeys)
        => filtered_df = SelectSeq(df, LAMBDA row : SatisfiesBounds(row, current_filters))

\* C14: a brand and two bounds kept two of the four rows, one of them a row
\* whose brand is written in another case
C14_Witness ==
    /\ last.kind = "filtered"
    /\ DOMAIN current_filters = {"brand", "price_max", "battery_capacity_mah"}
    /\ df = Catalog
    /\ filtered_df = <<Row_M14, Row_A05>>

\* C15: on a constraint set of bounds, brand, battery capacity and the
\* battery keyword, filter_data keeps the rows that satisfy the bounds, the
\* brand and the capacity and, only when no capacity is given, have a
\* battery of at least 4500 mAh.
C15_BatteryKeywordYieldsToCapacity ==
    (last.kind = "filtered" /\ Has(current_filters, "keyword_battery")
        /\ DOMAIN current_filters \subseteq BoundKeys \cup {"keyword_battery"})
        => filtered_df =
               SelectSeq(df, LAMBDA row :
                   /\ SatisfiesBounds(row, current_filters)
                   /\ ~Has(current_filters, "battery_capacity_mah")
                          => row.battery_capacity_mah >= 4500)

\* C15: the keyword came with a capacity of 4000 mAh, and a row of 4200 mAh
\* was kept
C15_Witness ==
    /\ last.kind = "filtered"
    /\ DOMAIN current_filters = {"keyword_battery", "battery_capacity_mah"}
    /\ current_filters["battery_capacity_mah"] = 4000
    /\ Row_C12.battery_capacity_mah < 4500
    /\ \E i \in 1..Len(filtered_df) : filtered_df[i] = Row_C12
    /\ Len(filtered_df) < Len(df)

\* the rows are in ascending order of price
AscendingByPrice(rows) ==
    \A i \in 1..(Len(rows) - 1) : rows[i].launched_price_rs <= rows[i + 1].launched_price_rs

\* the two sequences hold the same rows, each once
SameRows(a, b) ==
    /\ Len(a) = Len(b)
    /\ {a[i] : i \in 1..Len(a)} = {b[i] : i \in 1..Len(b)}

\* the row passes a constraint set of bounds, brand, battery capacity and
\* the battery and budget keywords, the budget cap of 15000 being in force
\* exactly when the budget keyword comes with no price bound
PassesWithBudgetCap(row, filters) ==
    /\ SatisfiesBounds(row, filters)
    /\ (Has(filters, "keyword_battery") /\ ~Has(filters, "battery_capacity_mah"))
           => row.battery_capacity_mah >= 4500
    /\ (Has(filters, "keyword_budget") /\ ~HasPrice(filters))
           => row.launched_price_rs <= 15000

\* C16: with the budget keyword the result of filter_data is in ascending
\* order of price and holds a row above 15000 exactly when a price bound is
\* present and lets it pass; without the budget keyword the result is in the
\* order of the catalog.
C16_BudgetSortsAndCaps ==
    (last.kind = "filtered"
        /\ DOMAIN current_filters
               \subseteq BoundKeys \cup {"keyword_battery", "keyword_budget"})
        => /\ SameRows(filtered_df,
                       SelectSeq(df, LAMBDA row : PassesWithBudgetCap(row, current_filters)))
           /\ Has(current_filters, "keyword_budget") => AscendingByPrice(filtered_df)
           /\ ~Has(current_filters, "keyword_budget") => KeptInOrder(filtered_df, df)

\* C16: the budget keyword came with a price bound; the rows were put in
\* another order than the catalog's and a row above 15000 was kept
C16_Witness ==
    /\ last.kind = "filtered"
    /\ Has(current_filters, "keyword_budget") /\ Has(current_filters, "price_max")
    /\ AscendingByPrice(filtered_df)
    /\ ~KeptInOrder(filtered_df, df)
    /\ \E i \in 1..Len(filtered_df) : filtered_df[i].launched_price_rs > 15000

\* the step is a call of filter_data on its own
FilterCallStep == last'.kind \in {"filtered", "filtered_again"} /\ last'.kind # last.kind

C18_NoConstraintKeepsEveryRow ==
    (last.kind = "direct_submit" /\ ~NonEmpty(extract_filters(query)))
        => /\ filtered_df = df
           /\ filtered_df = filter_data(df, EmptyDict)
           /\ show_results_display

\* C18: "hmm" was submitted in direct-search mode and the four rows of the
\* catalog are the result
C18_Witness ==
    /\ last.kind = "direct_submit"
    /\ mode = "direct_search"
    /\ query = Said.hmm
    /\ extract_filters(query) = EmptyDict
    /\ filtered_df = Catalog
    /\ Len(filtered_df) = 4

\* "under Rs" as it stands in a lower-cased utterance
UnderRupee == Word.under \o <<" ", RUPEE>>

\* the positions of s where "under RsN" stands, N a run of digits
UnderRupeeAt(s) ==
    {i \in 1..Len(s) :
        /\ StartsAt(s, i, UnderRupee)
        /\ DigitsEnd(s, i + Len(UnderRupee)) > i + Len(UnderRupee)}

\* the N of the "under RsN" at i
UnderAmount(s, i) ==
    Number(s, i + Len(UnderRupee), DigitsEnd(s, i + Len(UnderRupee)))

\* s holds "under RsN" and no under, less than or below word before the
\* first of them
FirstCeilingIsUnderRupee(s) ==
    /\ UnderRupeeAt(s) # {}
    /\ \A j \in 1..(Leftmost(UnderRupeeAt(s)) - 1) :
           WordAt(s, j, <<Word.under, Word.less_than, Word.below>>) = <<>>

\* extract_filters was called on the utterance in query
Extracted == last.kind = "extracted" /\ current_filters = last.extracted

\* C19, as stated: whenever the utterance holds "under RsN", extract_filters
\* yields price_max = N and no price_min key.
C19_UnderYieldsOnlyPriceMax ==
    Extracted =>
        \A i \in UnderRupeeAt(lower(query)) :
            /\ Has(current_filters, "price_max")
            /\ current_filters["price_max"] = UnderAmount(lower(query), i)
            /\ ~Has(current_filters, "price_min")

\* C19, amended: when "under RsN" is the first under/less than/below phrase
\* of the utterance and the utterance holds no "RsA to B" range and no
\* around/about amount, extract_filters yields price_max = N; it yields no
\* price_min key unless the utterance holds an over/above/more than amount.
C19_FirstUnderAloneYieldsPriceMax ==
    (/\ Extracted
     /\ FirstCeilingIsUnderRupee(lower(query))
     /\ Search(lower(query), PriceRangeAt) = <<>>
     /\ Search(lower(query), AroundPriceAt) = <<>>)
        => /\ Has(current_filters, "price_max")
           /\ current_filters["price_max"] =
                  UnderAmount(lower(query), Leftmost(UnderRupeeAt(lower(query))))
           /\ (Search(lower(query), PriceMinAt) = <<>>
                   => ~Has(current_filters, "price_min"))

\* C19: an utterance with "under Rs20000" first and "under Rs500" after it,
\* and no other price phrase, gave price_max 20000 and no price_min
C19_Witness ==
    /\ Extracted
    /\ FirstCeilingIsUnderRupee(lower(query))
    /\ Cardinality(UnderRupeeAt(lower(query))) = 2
    /\ Search(lower(query), PriceRangeAt) = <<>>
    /\ Search(lower(query), AroundPriceAt) = <<>>
    /\ Search(lower(query), PriceMinAt) = <<>>
    /\ current_filters = Put(EmptyDict, "price_max", 20000)

\* " to Rs" as it stands between the two amounts of a range
ToRupee == <<" ">> \o Word.to \o <<" ", RUPEE>>

\* the positions of s where "RsA to RsB" stands, A and B runs of digits
RupeeRangeAt(s) ==
    {i \in 1..Len(s) :
        /\ s[i] = RUPEE
        /\ DigitsEnd(s, i + 1) > i + 1
        /\ StartsAt(s, DigitsEnd(s, i + 1), ToRupee)
        /\ DigitsEnd(s, DigitsEnd(s, i + 1) + Len(ToRupee))
               > DigitsEnd(s, i + 1) + Len(ToRupee)}

\* the A of the "RsA to RsB" at i
RangeLow(s, i) == Number(s, i + 1, DigitsEnd(s, i + 1))

\* the B of the "RsA to RsB" at i
RangeHigh(s, i) ==
    Number(s, DigitsEnd(s, i + 1) + Len(ToRupee),
           DigitsEnd(s, DigitsEnd(s, i + 1) + Len(ToRupee)))

\* the "RsA to RsB" ranges of s with A < B
RisingRangeAt(s) ==
    {i \in RupeeRangeAt(s) : RangeLow(s, i) < RangeHigh(s, i)}

\* C20, as stated: whenever the utterance holds "RsA to RsB" with A < B,
\* extract_filters yields price_min = A and price_max = B, whatever an
\* "under N" of the same utterance says.
C20_RangeYieldsBothBounds ==
    Extracted =>
        \A i \in RisingRangeAt(lower(query)) :
            /\ Has(current_filters, "price_min")
            /\ Has(current_filters, "price_max")
            /\ current_filters["price_min"] = RangeLow(lower(query), i)
            /\ current_filters["price_max"] = RangeHigh(lower(query), i)

\* C20, amended: when "RsA to RsB" with A < B is the first range of the
\* utterance and the utterance holds no around/about amount, extract_filters
\* yields price_min = A and price_max = B, whatever an "under N" of the same
\* utterance says.
C20_FirstRangeYieldsBothBounds ==
    (/\ Extracted
     /\ RisingRangeAt(lower(query)) # {}
     /\ \A j \in 1..(Leftmost(RisingRangeAt(lower(query))) - 1) :
            PriceRangeAt(lower(query), j) = <<>>
     /\ Search(lower(query), AroundPriceAt) = <<>>)
        => /\ Has(current_filters, "price_min")
           /\ Has(current_filters, "price_max")
           /\ current_filters["price_min"] =
                  RangeLow(lower(query), Leftmost(RisingRangeAt(lower(query))))
           /\ current_filters["price_max"] =
                  RangeHigh(lower(query), Leftmost(RisingRangeAt(lower(query))))

\* C20: an utterance with "under Rs500" and "Rs12000 to Rs18000", and no
\* around/about amount, gave price_min 12000 and price_max 18000
C20_Witness ==
    /\ Extracted
    /\ UnderRupeeAt(lower(query)) # {}
    /\ UnderAmount(lower(query), Leftmost(UnderRupeeAt(lower(query)))) = 500
    /\ Cardinality(RisingRangeAt(lower(query))) = 1
    /\ Search(lower(query), AroundPriceAt) = <<>>
    /\ current_filters =
           Put(Put(EmptyDict, "price_min", 12000), "price_max", 18000)

\* "over Rs" as it stands in a lower-cased utterance
OverRupee == Word.over \o <<" ", RUPEE>>

\* the positions of s where "over RsN" stands, N a run of digits
OverRupeeAt(s) ==
    {i \in 1..Len(s) :
        /\ StartsAt(s, i, OverRupee)
        /\ DigitsEnd(s, i + Len(OverRupee)) > i + Len(OverRupee)}

\* the N of the "over RsN" at i
OverAmount(s, i) ==
    Number(s, i + Len(OverRupee), DigitsEnd(s, i + Len(OverRupee)))

\* C21, as stated: when the utterance holds "over RsN" and no around/about
\* amount, extract_filters yields price_min = N, also when the utterance
\* holds a "RsA to RsB" range.
C21_OverYieldsPriceMin ==
    (/\ Extracted
     /\ OverRupeeAt(lower(query)) # {}
     /\ Search(lower(query), AroundPriceAt) = <<>>)
        => /\ Has(current_filters, "price_min")
           /\ current_filters["price_min"] =
                  OverAmount(lower(query), Leftmost(OverRupeeAt(lower(query))))

\* c is a letter of a lower-cased utterance
IsLetter(c) == \E k \in 1..Len(LowerChars) : LowerChars[k] = c

\* w stands in s as a word: no letter before it and none after it
HasWord(s, w) ==
    \E j \in 1..Len(s) :
        /\ StartsAt(s, j, w)
        /\ (j = 1 \/ ~IsLetter(s[j - 1]))
        /\ (j + Len(w) > Len(s) \/ ~IsLetter(s[j + Len(w)]))

\* the positions of s where a GB amount starts: a whole run of digits, then
\* spaces or none, then "gb"
GbAmountAt(s) ==
    {i \in 1..Len(s) :
        /\ IsDigit(s[i])
        /\ (i = 1 \/ ~IsDigit(s[i - 1]))
        /\ StartsAt(s, SkipSpaces(s, DigitsEnd(s, i)), Word.gb)}

\* the N of the GB amount at i
GbAmount(s, i) == Number(s, i, DigitsEnd(s, i))

\* the GB amount at i is followed by w, after spaces or none
GbFollowedBy(s, i, w) ==
    StartsAt(s, SkipSpaces(s, SkipSpaces(s, DigitsEnd(s, i)) + Len(Word.gb)), w)

\* the GB amount at i comes right after w, with spaces or none between
GbPrecededBy(s, i, w) ==
    \E j \in 1..(i - 1) : StartsAt(s, j, w) /\ SkipSpaces(s, j + Len(w)) = i

\* the GB amount at i is bare: no ram, storage or rom after it and no min
\* or at least before it
IsBareGb(s, i) ==
    /\ \A w \in {Word.ram, Word.storage, Word.rom} : ~GbFollowedBy(s, i, w)
    /\ \A w \in {Word.min, Word.at_least} : ~GbPrecededBy(s, i, w)

\* the GB amounts of s followed by ram
RamAmountAt(s) == {i \in GbAmountAt(s) : GbFollowedBy(s, i, Word.ram)}

\* the GB amounts of s followed by storage or rom
StorageAmountAt(s) ==
    {i \in GbAmountAt(s) :
        GbFollowedBy(s, i, Word.storage) \/ GbFollowedBy(s, i, Word.rom)}

\* C22, as stated: when the only GB amount of the utterance is bare and the
\* words storage and rom do not occur, extract_filters yields ram_min = N and
\* no storage_min; when the utterance holds "N GB RAM" and "M GB storage",
\* it yields ram_min = N and storage_min = M.
C22_BareGbIsRam ==
    Extracted =>
        /\ (/\ Cardinality(GbAmountAt(lower(query))) = 1
            /\ IsBareGb(lower(query), Leftmost(GbAmountAt(lower(query))))
            /\ ~HasWord(lower(query), Word.storage)
            /\ ~HasWord(lower(query), Word.rom))
               => /\ Has(current_filters, "ram_min")
                  /\ current_filters["ram_min"] =
                         GbAmount(lower(query), Leftmost(GbAmountAt(lower(query))))
                  /\ ~Has(current_filters, "storage_min")
        /\ (RamAmountAt(lower(query)) # {} /\ StorageAmountAt(lower(query)) # {})
               => /\ Has(current_filters, "ram_min")
                  /\ Has(current_filters, "storage_min")
                  /\ current_filters["ram_min"] =
                         GbAmount(lower(query), Leftmost(RamAmountAt(lower(query))))
                  /\ current_filters["storage_min"] =
                         GbAmount(lower(query), Leftmost(StorageAmountAt(lower(query))))

\* C23, as stated: when the utterance holds exactly one GB amount,
\* extract_filters sets at most one of ram_min and storage_min.
C23_OneGbAmountOneKey ==
    (Extracted /\ Cardinality(GbAmountAt(lower(query))) = 1)
        => ~(Has(current_filters, "ram_min") /\ Has(current_filters, "storage_min"))

\* the utterance contains a greeting keyword
IsGreeting(prompt) == ContainsAny(lower(prompt), GreetingWords)

\* the utterance contains a thanks keyword
IsThanks(prompt) == ContainsAny(lower(prompt), <<Text.thank_you, Text.thanks>>)

\* the utterance contains a help keyword
IsHelpRequest(prompt) == ContainsAny(lower(prompt), <<Text.help, Text.what_can_you_do>>)

\* the latest turn took the denial branch: a confirmation was pending and
\* the utterance held a negative keyword and no affirmative one
DenialReply ==
    last.was_awaiting /\ IsNegative(last.prompt) /\ ~IsAffirmative(last.prompt)

\* the latest turn falls under one of the four cases: a greeting, thanks or
\* help keyword, or nothing gathered
FixedResponseCase ==
    \/ HasCourtesyKeyword(last.prompt)
    \/ ~NonEmpty(last.merged)

\* the response of the first of the four cases that matches
FixedResponse ==
    IF IsGreeting(last.prompt) THEN GreetingResponse
    ELSE IF IsThanks(last.prompt) THEN ThanksResponse
    ELSE IF IsHelpRequest(last.prompt) THEN HelpResponse
    ELSE StartingCriteriaResponse

\* C24, as stated: a turn that triggers no search and is not a denial reply
\* and falls under one of the four cases is answered by the first of them
\* that matches, whatever is gathered, and the flag is as it was.
C24_FixedResponsesComeFirst ==
    (ChatTurnTaken /\ ~last.trigger_search /\ ~DenialReply /\ FixedResponseCase)
        => /\ last.response = FixedResponse
           /\ awaiting_confirmation = last.was_awaiting

\* C24, amended: a turn that triggers no search, is not a denial reply, holds
\* no explicit search command and falls under one of the four cases is
\* answered by the first of them that matches, whatever is gathered, and the
\* flag is as it was.
C24_FixedResponsesComeFirstWithoutCommand ==
    (/\ ChatTurnTaken /\ ~last.trigger_search /\ ~DenialReply
     /\ ~IsSearchCommand(last.prompt)
     /\ FixedResponseCase)
        => /\ last.response = FixedResponse
           /\ last.found_rows = -1
           /\ awaiting_confirmation = last.was_awaiting

\* C24: "hello" was said while a confirmation was pending, with constraints
\* gathered; the welcome message came back and the confirmation is still
\* pending
C24_Witness ==
    /\ ChatTurnTaken
    /\ last.prompt = Said.hello
    /\ last.was_awaiting
    /\ NonEmpty(last.filters_before)
    /\ last.merged = last.filters_before
    /\ ~last.trigger_search
    /\ last.response = GreetingResponse
    /\ awaiting_confirmation
    /\ current_filters = last.merged

\* the step is the render that follows a chat turn
RenderAfterTurnStep == pc = "rerun" /\ pc' = "ready" /\ last.kind = "turn"

\* the chat page shows the "No phones found" notice (src/app.py:898-899)
ShowsNoPhonesNotice ==
    /\ show_results /\ mode = "chat"
    /\ filtered_df = EmptyFrame
    /\ InTranscript(NoPhonesMarker)

\* the no-matches message is the last of msgs
EndsWithNoPhones(msgs) ==
    Len(msgs) > 0 /\ msgs[Len(msgs)] = Message("assistant", NoPhonesMessage)

\* C25: a chat turn that searches runs to its st.rerun(), leaves the
\* no-matches message at the end of the transcript exactly when no row
\* matched, and leaves the constraints empty whether rows matched or not;
\* the render that follows a search without a match shows the "No phones
\* found" notice and takes the message out of the transcript.
C25_EmptyResultIsReported ==
    [][/\ (ChatTurnStep /\ last'.trigger_search)
              => /\ EndsWithNoPhones(messages') <=> (last'.found_rows = 0)
                 /\ (last'.found_rows = 0) <=> (filtered_df' = EmptyFrame)
                 /\ current_filters' = EmptyDict
       /\ (RenderAfterTurnStep /\ last.found_rows = 0)
              => /\ ShowsNoPhonesNotice
                 /\ messages' = WithoutNoPhones(messages)
                 /\ current_filters' = EmptyDict
                 /\ filtered_df' = EmptyFrame]_vars

\* C25: a search matched no row, the page was rendered, and the no-matches
\* message is gone from the transcript again
C25_Witness ==
    /\ ChatTurnTaken
    /\ pc = "ready"
    /\ last.trigger_search
    /\ last.found_rows = 0
    /\ NonEmpty(last.merged)
    /\ messages[Len(messages)] = Message("assistant", SearchingNowMessage)
    /\ ~InTranscript(NoPhonesMarker)
    /\ current_filters = EmptyDict

\* cf holds a price_min above its price_max
PriceBoundsCrossed(cf) ==
    /\ Has(cf, "price_min") /\ Has(cf, "price_max")
    /\ cf["price_min"] > cf["price_max"]

\* C26: a chat turn that searches with price_min above price_max finds no
\* row and ends like any search without a match: the result buffer is
\* empty, the constraints are cleared and, until the page is rendered, the
\* no-matches message ends the transcript.
C26_CrossedBoundsFindNothing ==
    (ChatTurnTaken /\ last.trigger_search /\ PriceBoundsCrossed(last.merged))
        => /\ last.found_rows = 0
           /\ filtered_df = EmptyFrame
           /\ current_filters = EmptyDict
           /\ pc \in {"ready", "rerun"}
           /\ (pc = "rerun" => EndsWithNoPhones(messages))

\* C26: "around 30000" left price_min 28000 and price_max 32000; "search
\* under 20000" merged price_max 20000 into them and searched with
\* price_min 28000 above price_max 20000, though rows cost less than 20000
C26_Witness ==
    /\ ChatTurnTaken
    /\ pc = "rerun"
    /\ last.prompt = Said.search_under
    /\ last.trigger_search
    /\ last.filters_before =
           Put(Put(EmptyDict, "price_min", 28000), "price_max", 32000)
    /\ last.merged =
           Put(Put(EmptyDict, "price_min", 28000), "price_max", 20000)
    /\ PriceBoundsCrossed(last.merged)
    /\ last.found_rows = 0
    /\ filter_data(df, Put(EmptyDict, "price_max", 20000)) # EmptyFrame
    /\ EndsWithNoPhones(messages)

\* the step is a script run without input that shows the chat page with
\* rows in the result buffer
RenderWithResultsStep ==
    /\ show_results /\ mode = "chat"
    /\ filtered_df # EmptyFrame
    /\ pc' = "ready" /\ last' = last /\ mode' = mode

\* C27: a render of the chat page that shows rows leaves the result buffer
\* and the constraints empty and the flag FALSE; and a render shows rows
\* only as the render that follows the turn whose search found them, so no
\* result set is shown by two renders.
C27_ResultsShownOnce ==
    [][RenderWithResultsStep
           => /\ filtered_df' = EmptyFrame
              /\ current_filters' = EmptyDict
              /\ ~awaiting_confirmation'
              /\ pc = "rerun"
              /\ last.kind = "turn" /\ last.trigger_search
              /\ last.found_rows = Len(filtered_df)
              /\ filtered_df = filter_data(df, last.merged)]_vars

\* C27: a search found rows, the chat page was rendered, and the buffer is
\* empty again
C27_Witness ==
    /\ ChatTurnTaken
    /\ mode = "chat"
    /\ pc = "ready"
    /\ last.trigger_search
    /\ last.found_rows > 0
    /\ filter_data(df, last.merged) # EmptyFrame
    /\ filtered_df = EmptyFrame
    /\ current_filters = EmptyDict
    /\ ~awaiting_confirmation

\* fetch_image_url was called with the name in query
ImageFetched == last.kind = "image_fetched"

\* C28: fetch_image_url lets no exception out: it returns the placeholder
\* URL when the image search raised or returned no result, and the image
\* URL of the first result otherwise.
C28_ImageLookupNeverFails ==
    ImageFetched
        => /\ ~last.outcome.raised
           /\ last.outcome.returned =
                  IF last.search.raises \/ Len(last.search.results) = 0
                  THEN Text.no_image
                  ELSE last.search.results[1].image

\* C28: the image search raised and the placeholder URL came back
C28_Witness ==
    /\ ImageFetched
    /\ last.search.raises
    /\ ~last.outcome.raised
    /\ last.outcome.returned = Text.no_image
    /\ Len(Text.no_image) > 0

\* C29: a reply to a pending confirmation that holds no affirmative and no
\* negative keyword and no explicit search command triggers no search; its
\* constraints are merged into those gathered and the confirmation is still
\* pending after the turn.
C29_AmbiguousReplyKeepsPending ==
    (/\ ChatTurnTaken /\ last.was_awaiting
     /\ ~IsAffirmative(last.prompt) /\ ~IsNegative(last.prompt)
     /\ ~IsSearchCommand(last.prompt))
        => /\ ~last.trigger_search
           /\ last.found_rows = -1
           /\ current_filters = RightBiasedUnion(last.filters_before, last.extracted)
           /\ last.extracted = extract_filters(last.prompt)
           /\ awaiting_confirmation

\* C29: "samsung" answered a pending confirmation; the brand joined the
\* constraints and the confirmation is pending still
C29_Witness ==
    /\ ChatTurnTaken
    /\ last.was_awaiting
    /\ last.prompt = Said.samsung
    /\ DOMAIN last.extracted = {"brand"}
    /\ ~Has(last.filters_before, "brand")
    /\ Has(current_filters, "brand")
    /\ Has(current_filters, "price_max")
    /\ ~last.trigger_search
    /\ awaiting_confirmation

\* C30: a chat turn that searches calls filter_data with the constraints
\* gathered before the turn merged with those of the turn's utterance, and
\* the result buffer holds what that call returns.
C30_SearchUsesMergedConstraints ==
    [][(ChatTurnStep /\ last'.trigger_search)
          => /\ last'.merged =
                    RightBiasedUnion(current_filters, extract_filters(last'.prompt))
             /\ filtered_df' =
                    filter_data(df, RightBiasedUnion(current_filters,
                                                     extract_filters(last'.prompt)))
             /\ last'.found_rows = Len(filtered_df')]_vars

\* C30: "samsung" was gathered; "search under 20000" searched with the brand
\* and the ceiling together and found fewer rows than the brand alone or the
\* ceiling alone would
C30_Witness ==
    /\ ChatTurnTaken
    /\ pc = "rerun"
    /\ last.prompt = Said.search_under
    /\ last.trigger_search
    /\ DOMAIN last.filters_before = {"brand"}
    /\ DOMAIN last.extracted = {"price_max"}
    /\ DOMAIN last.merged = {"brand", "price_max"}
    /\ filtered_df = filter_data(df, last.merged)
    /\ Len(filtered_df) > 0
    /\ Len(filtered_df) < Len(filter_data(df, last.extracted))
    /\ Len(filtered_df) <= Len(filter_data(df, last.filters_before))

\* C31: whenever a confirmation is pending, the constraints gathered hold a
\* price bound, ram_min, storage_min and a battery constraint, so they are
\* not empty.
C31_PendingOverCompleteCriteria ==
    awaiting_confirmation
        => /\ HasAllFour(current_filters)
           /\ NonEmpty(current_filters)

\* C31: the page was rendered after "under 20000 8gb ram 128gb storage 5000
\* mah" was answered with the confirmation prompt; the confirmation is
\* pending over the four constraints
C31_Witness ==
    /\ awaiting_confirmation
    /\ pc = "ready"
    /\ mode = "chat"
    /\ last.kind = "turn"
    /\ last.prompt = Said.all_four
    /\ ~last.was_awaiting
    /\ DOMAIN current_filters =
           {"price_max", "ram_min", "storage_min", "battery_capacity_mah"}
    /\ filtered_df = EmptyFrame

\* C32: a chat turn searches only if a confirmation was pending and the
\* utterance holds an affirmative keyword, or the utterance holds an
\* explicit search command; so an utterance without a search command never
\* searches outside a pending confirmation; and every search is run with a
\* constraint set that is not empty.
C32_SearchNeedsConsentAndCriteria ==
    (ChatTurnTaken /\ last.trigger_search)
        => /\ \/ last.was_awaiting /\ IsAffirmative(last.prompt)
              \/ IsSearchCommand(last.prompt)
           /\ NonEmpty(last.merged)
           /\ last.found_rows = Len(filter_data(df, last.merged))

\* C32: "yes" was said with constraints gathered and no confirmation
\* pending, and no search was run
C32_Witness ==
    /\ ChatTurnTaken
    /\ last.prompt = Said.yes
    /\ IsAffirmative(last.prompt) /\ ~IsSearchCommand(last.prompt)
    /\ ~last.was_awaiting
    /\ NonEmpty(last.filters_before)
    /\ ~last.trigger_search
    /\ last.found_rows = -1
    /\ current_filters = last.filters_before

\* the latest turn reached the missing-information step: it triggered no
\* search, constraints are gathered and the response is none of the fixed
\* ones
ReachedMissingInformation ==
    /\ ChatTurnTaken /\ ~last.trigger_search
    /\ NonEmpty(last.merged)
    /\ last.response \notin CourtesyResponses

\* C33: no turn is answered with the brand-or-feature question and the
\* transcript never holds it: constraints with a price bound, ram_min,
\* storage_min and a battery constraint make a summary of three items or
\* more, and a turn that reaches the missing-information step with them is
\* answered with the confirmation prompt, with or without a brand.
C33_BrandQuestionNeverAsked ==
    /\ ~InTranscript(BrandFeatureQuestion)
    /\ ChatTurnTaken
           => /\ last.response # BrandFeatureQuestion
              /\ HasAllFour(last.merged) => Len(SummaryParts(last.merged)) >= 3
              /\ (ReachedMissingInformation /\ HasAllFour(last.merged))
                     => /\ last.response = ConfirmationPrompt(SummaryParts(last.merged))
                        /\ awaiting_confirmation

\* C33: the four constraints were gathered with no brand and no feature
\* keyword; the summary has four items and the confirmation prompt was
\* issued
C33_Witness ==
    /\ ReachedMissingInformation
    /\ HasAllFour(last.merged)
    /\ ~Has(last.merged, "brand")
    /\ \A k \in DOMAIN last.merged :
           k \in {"price_max", "ram_min", "storage_min", "battery_capacity_mah"}
    /\ Len(SummaryParts(last.merged)) = 4
    /\ Contains(last.response, ConfirmationMarker)
    /\ awaiting_confirmation
    /\ InTranscript(ConfirmationMarker)

\* C34: a reply to a pending confirmation that holds both an affirmative and
\* a negative keyword is taken as consent: the turn searches with the merged
\* constraints, is not answered with the denial response, the denial response
\* does not enter the transcript with it, and nothing is pending afterwards.
C34_AffirmativeWinsOverNegative ==
    (/\ ChatTurnTaken /\ last.was_awaiting
     /\ IsAffirmative(last.prompt) /\ IsNegative(last.prompt))
        => /\ last.trigger_search
           /\ last.found_rows = Len(filter_data(df, last.merged))
           /\ last.response # DenialResponse
           /\ messages[Len(messages)].content # DenialResponse
           /\ ~awaiting_confirmation

\* C34: "ok not now" answered a pending confirmation; it is no search command,
\* it holds "ok" and "not", and the turn searched
C34_Witness ==
    /\ ChatTurnTaken
    /\ last.was_awaiting
    /\ last.prompt = Said.ok_not_now
    /\ IsAffirmative(last.prompt) /\ IsNegative(last.prompt)
    /\ ~IsSearchCommand(last.prompt)
    /\ last.trigger_search
    /\ last.found_rows >= 0
    /\ ~awaiting_confirmation

\* the rows of a frame, as a set
RowSet(frame) == {frame[i] : i \in 1..Len(frame)}

\* with one more key, filter_data returns no row it does not return for the
\* constraints of the latest call
NarrowedBy(key, value) ==
    RowSet(filter_data(df, Put(current_filters, key, value))) \subseteq RowSet(filtered_df)

\* the key added switches off a threshold a keyword of the constraints held
\* applies: a price bound that lifts the budget cap of 15000, or a battery
\* capacity below the 4500 of the battery keyword
LiftsKeywordThreshold(key, value) ==
    \/ /\ Has(current_filters, "keyword_budget") /\ ~HasPrice(current_filters)
       /\ \/ key = "price_min"
          \/ key = "price_max" /\ value > 15000
    \/ /\ Has(current_filters, "keyword_battery")
       /\ key = "battery_capacity_mah" /\ value < 4500

\* the numeric keys and the amounts they are added with
NumericKeys == {"price_max", "price_min", "ram_min", "storage_min", "battery_capacity_mah"}
AddedAmounts == {6, 128, 4000, 5000, 14000, 20000}
AddedBrands == {<<"S","a","m","s","u","n","g">>, <<"N","o","k","i","a">>}
KeywordKeys ==
    {"keyword_gaming", "keyword_camera", "keyword_budget", "keyword_battery",
     "keyword_display", "keyword_compact", "keyword_premium"}

\* C35 as stated: whatever key is added to the constraints of a call of
\* filter_data, every row returned with the key is returned without it.
C35_OneMoreKeyOnlyNarrows ==
    last.kind = "filtered"
        => /\ \A key \in NumericKeys \ DOMAIN current_filters :
                  \A value \in AddedAmounts : NarrowedBy(key, value)
           /\ ~Has(current_filters, "brand")
                  => \A value \in AddedBrands : NarrowedBy("brand", value)
           /\ \A key \in KeywordKeys \ DOMAIN current_filters : NarrowedBy(key, TRUE)

\* C35: a key added to the constraints of a call of filter_data re-admits no
\* row, unless it lifts a keyword's threshold: a price_min, or a price_max
\* above 15000, added to keyword_budget with no price bound, or a
\* battery_capacity_mah below 4500 added to keyword_battery.
C35_OneMoreKeyNarrowsUnlessLifting ==
    last.kind = "filtered"
        => /\ \A key \in NumericKeys \ DOMAIN current_filters :
                  \A value \in AddedAmounts :
                      ~LiftsKeywordThreshold(key, value) => NarrowedBy(key, value)
           /\ ~Has(current_filters, "brand")
                  => \A value \in AddedBrands : NarrowedBy("brand", value)
           /\ \A key \in KeywordKeys \ DOMAIN current_filters : NarrowedBy(key, TRUE)

\* C35: filter_data was called with the budget keyword and a ceiling of
\* 20000 on the catalog of five rows; a ram_min of 6 added keeps some of the
\* rows returned and drops others
C35_Witness ==
    /\ last.kind = "filtered"
    /\ df = Inputs.wider_catalog
    /\ DOMAIN current_filters = {"keyword_budget", "price_max"}
    /\ current_filters["price_max"] = 20000
    /\ ~LiftsKeywordThreshold("ram_min", 6)
    /\ RowSet(filter_data(df, Put(current_filters, "ram_min", 6))) # {}
    /\ RowSet(filter_data(df, Put(current_filters, "ram_min", 6))) # RowSet(filtered_df)
    /\ NarrowedBy("ram_min", 6)

\* the step submits the direct-search form
DirectSubmitStep ==
    /\ mode = "direct_search" /\ pc = "ready" /\ pc' = "ready"
    /\ last'.kind = "direct_submit"

\* C36: a submit of the direct-search form leaves the result of filter_data
\* on the catalog and the constraints extract_filters reads from the query
\* submitted, whatever query and result were there before; the constraints
\* gathered by the dialogue, the pending confirmation and the transcript are
\* as they were, and so is the catalog.
C36_DirectSearchIsStateless ==
    [][DirectSubmitStep
          => /\ filtered_df' = filter_data(df, extract_filters(query'))
             /\ current_filters' = current_filters
             /\ awaiting_confirmation' = awaiting_confirmation
             /\ messages' = messages
             /\ df' = df]_vars

\* C36: "under 20000" was submitted in direct-search mode; rows were found,
\* nothing is gathered, nothing is pending and the transcript is empty
C36_Witness ==
    /\ last.kind = "direct_submit"
    /\ mode = "direct_search"
    /\ query = Said.price
    /\ NonEmpty(extract_filters(query))
    /\ filtered_df = filter_data(df, extract_filters(query))
    /\ Len(filtered_df) > 0
    /\ show_results_display
    /\ current_filters = EmptyDict
    /\ ~awaiting_confirmation
    /\ messages = <<>>

====
